---- MODULE Spec2Model ----
(***************************************************************************)
(* The .puz decode pipeline of puz.rs (src/src/parser): magic check,       *)
(* header, grids, strings, extension sections, clue derivation and         *)
(* validation, over an input byte stream.                                  *)
(*                                                                         *)
(* Bytes are integers 0..255, text is a sequence of code points, a grid is *)
(* a sequence of rows and a row a sequence of code points.  A stage is an  *)
(* operator returning [ok |-> TRUE, val, rd] (rd the reader after the      *)
(* stage) or [ok |-> FALSE, err]; parse_puzzle is the state machine that   *)
(* runs them in order.                                                     *)
(***************************************************************************)
EXTENDS Integers, Sequences, FiniteSets, TLC

VARIABLES
    buf_reader,   \* [data, pos]: the input bytes and the number consumed
    pc,           \* the stage parse_puzzle runs next, "done" after return
    header,       \* Header of parse_header, NoValue before
    grids,        \* Grid of parse_grids
    strings,      \* StringData of parse_strings
    extensions,   \* Extensions of parse_extensions_with_recovery
    clues,        \* Clues of process_clues
    warnings,     \* Vec<PuzWarning> of parse_puzzle
    result,       \* what parse_puzzle returned: Pending, Ok(puzzle, warnings) or Err
    call,         \* a function called on its own: its name and arguments
    ret           \* what that call returned, Pending before

vars == <<buf_reader, pc, header, grids, strings, extensions, clues, warnings, result,
          call, ret>>

NoValue == [kind |-> "NoValue"]
Pending == [kind |-> "Pending"]

Ok(v, rd) == [ok |-> TRUE, val |-> v, rd |-> rd]
Err(e) == [ok |-> FALSE, err |-> e]
\* A panic: the call returns nothing and unwinds through its callers.
Panic(msg) == [ok |-> FALSE, err |-> [kind |-> "Panic", msg |-> msg]]

(***************************************************************************)
(* Bytes and small helpers                                                 *)
(***************************************************************************)
Byte == 0..255

RECURSIVE Repeat(_, _)
Repeat(b, n) == IF n = 0 THEN <<>> ELSE <<b>> \o Repeat(b, n - 1)

Min(a, b) == IF a < b THEN a ELSE b

\* The little-endian bytes of a 16-bit value (how the format stores u16).
LE16(n) == <<n % 256, (n \div 256) % 256>>

\* Mutant of read_u16_le: the high byte is dropped.
read_u16_le_low_byte(b) == b[1]

\* LittleEndian::read_u16 of two bytes.
read_u16_le(b) == b[1] + 256 * b[2]

(***************************************************************************)
(* Errors                                                                  *)
(***************************************************************************)
IoError == [kind |-> "IoError", io_kind |-> "UnexpectedEof"]
InvalidMagic(found) == [kind |-> "InvalidMagic", found |-> found]
InvalidDimensions(w, h) == [kind |-> "InvalidDimensions", width |-> w, height |-> h]
InvalidClueCount(e, f) == [kind |-> "InvalidClueCount", expected |-> e, found |-> f]
InvalidGrid(reason) == [kind |-> "InvalidGrid", reason |-> reason]
InvalidClues(reason) == [kind |-> "InvalidClues", reason |-> reason]
SectionSizeMismatch(s, e, f) ==
    [kind |-> "SectionSizeMismatch", section |-> s, expected |-> e, found |-> f]

ScrambledPuzzle(version) == [kind |-> "ScrambledPuzzle", version |-> version]
SkippedExtension(section, reason) ==
    [kind |-> "SkippedExtension", section |-> section, reason |-> reason]

(***************************************************************************)
(* Byte cursor (io.rs)                                                     *)
(***************************************************************************)
\* Mutant of read_bytes: a short read returns the bytes that are left.
read_bytes_short(rd, count) ==
    Ok(SubSeq(rd.data, rd.pos + 1, Min(rd.pos + count, Len(rd.data))),
       [rd EXCEPT !.pos = Min(rd.pos + count, Len(rd.data))])

\* reader.read_exact of `count` bytes: the bytes and the advanced reader, or
\* the io::Error converted by From<io::Error> into PuzError::IoError.
read_bytes(rd, count) ==
    IF rd.pos + count <= Len(rd.data)
    THEN Ok(SubSeq(rd.data, rd.pos + 1, rd.pos + count),
            [rd EXCEPT !.pos = rd.pos + count])
    ELSE Err(IoError)

skip_bytes(rd, count) ==
    LET r == read_bytes(rd, count) IN
    IF r.ok THEN Ok(NoValue, r.rd) ELSE r

read_u8(rd) ==
    LET r == read_bytes(rd, 1) IN
    IF r.ok THEN Ok(r.val[1], r.rd) ELSE r

read_u16(rd) ==
    LET r == read_bytes(rd, 2) IN
    IF r.ok THEN Ok(read_u16_le(r.val), r.rd) ELSE r

\* read_to_end: everything left, never short.
read_remaining_data(rd) ==
    Ok(SubSeq(rd.data, rd.pos + 1, Len(rd.data)), [rd EXCEPT !.pos = Len(rd.data)])

(***************************************************************************)
(* Text decoder (io.rs): strict UTF-8, else Windows-1252                   *)
(***************************************************************************)
IsCont(b) == b >= 128 /\ b <= 191

\* Length of the well-formed UTF-8 sequence that starts at bytes[i], 0 if
\* none does (the table std::str::from_utf8 validates against).
Utf8SeqLen(bytes, i) ==
    LET n == Len(bytes)
        b0 == bytes[i]
        b1 == IF i + 1 <= n THEN bytes[i + 1] ELSE 0
        b2 == IF i + 2 <= n THEN bytes[i + 2] ELSE 0
        b3 == IF i + 3 <= n THEN bytes[i + 3] ELSE 0
    IN  IF b0 <= 127 THEN 1
        ELSE IF b0 >= 194 /\ b0 <= 223 THEN (IF IsCont(b1) THEN 2 ELSE 0)
        ELSE IF b0 = 224 THEN (IF b1 >= 160 /\ b1 <= 191 /\ IsCont(b2) THEN 3 ELSE 0)
        ELSE IF b0 = 237 THEN (IF b1 >= 128 /\ b1 <= 159 /\ IsCont(b2) THEN 3 ELSE 0)
        ELSE IF b0 >= 225 /\ b0 <= 239 THEN (IF IsCont(b1) /\ IsCont(b2) THEN 3 ELSE 0)
        ELSE IF b0 = 240
             THEN (IF b1 >= 144 /\ b1 <= 191 /\ IsCont(b2) /\ IsCont(b3) THEN 4 ELSE 0)
        ELSE IF b0 >= 241 /\ b0 <= 243
             THEN (IF IsCont(b1) /\ IsCont(b2) /\ IsCont(b3) THEN 4 ELSE 0)
        ELSE IF b0 = 244
             THEN (IF b1 >= 128 /\ b1 <= 143 /\ IsCont(b2) /\ IsCont(b3) THEN 4 ELSE 0)
        ELSE 0

\* The code point of the well-formed sequence of length k at bytes[i].
Utf8CodePoint(bytes, i, k) ==
    IF k = 1 THEN bytes[i]
    ELSE IF k = 2 THEN (bytes[i] - 192) * 64 + (bytes[i + 1] - 128)
    ELSE IF k = 3
         THEN (bytes[i] - 224) * 4096 + (bytes[i + 1] - 128) * 64 + (bytes[i + 2] - 128)
    ELSE (bytes[i] - 240) * 262144 + (bytes[i + 1] - 128) * 4096
         + (bytes[i + 2] - 128) * 64 + (bytes[i + 3] - 128)

RECURSIVE from_utf8_at(_, _, _)
\* std::str::from_utf8 from index i on, acc the code points decoded so far:
\* [ok, val] with val the code points of the whole input.
from_utf8_at(bytes, i, acc) ==
    IF i > Len(bytes) THEN [ok |-> TRUE, val |-> acc]
    ELSE LET k == Utf8SeqLen(bytes, i) IN
         IF k = 0 THEN [ok |-> FALSE, val |-> <<>>]
         ELSE from_utf8_at(bytes, i + k, Append(acc, Utf8CodePoint(bytes, i, k)))

from_utf8(bytes) == from_utf8_at(bytes, 1, <<>>)

\* The Windows-1252 code points of bytes 128..159, in byte order.
Cp1252High ==
    <<8364, 129, 8218, 402, 8222, 8230, 8224, 8225, 710, 8240, 352, 8249, 338, 141,
      381, 143, 144, 8216, 8217, 8220, 8221, 8226, 8211, 8212, 732, 8482, 353, 8250,
      339, 157, 382, 376>>

\* Mutant of windows_1252_to_char: every byte keeps its value (ISO-8859-1).
windows_1252_to_char_latin1(byte) == byte

windows_1252_to_char(byte) ==
    IF byte <= 127 THEN byte
    ELSE IF byte <= 159 THEN Cp1252High[byte - 127]
    ELSE byte

\* The decoder on a value b: strict UTF-8, else byte by byte.
decode_bytes(b) ==
    IF from_utf8(b).ok THEN from_utf8(b).val
    ELSE [i \in 1..Len(b) |-> windows_1252_to_char(b[i])]

\* decode_puz_string is total: both branches return Ok, so the model returns
\* the text itself.  (The argument is bound to its value once, which keeps the
\* many uses of it in the decoder from re-evaluating the caller's expression.)
decode_puz_string(bytes) == CHOOSE s \in {decode_bytes(b) : b \in {bytes}} : TRUE

\* Mutant of len_utf8: every char counts as one byte.
len_utf8_one_byte(c) == 1

\* The number of bytes char c takes in a Rust String (char::len_utf8).
len_utf8(c) == IF c < 128 THEN 1 ELSE IF c < 2048 THEN 2 ELSE IF c < 65536 THEN 3 ELSE 4

RECURSIVE str_len(_)
\* String::len: the length in bytes, not in chars.
str_len(s) == IF s = <<>> THEN 0 ELSE len_utf8(Head(s)) + str_len(Tail(s))

RECURSIVE trim_end_matches(_, _)
trim_end_matches(s, c) ==
    IF s # <<>> /\ s[Len(s)] = c THEN trim_end_matches(SubSeq(s, 1, Len(s) - 1), c) ELSE s

(***************************************************************************)
(* Magic and header (io.rs, header.rs)                                     *)
(***************************************************************************)
\* b"ACROSS&DOWN\0"
expected_magic == <<65, 67, 82, 79, 83, 83, 38, 68, 79, 87, 78, 0>>

\* Mutant of validate_file_magic: the terminating NUL is not compared.
validate_file_magic_no_nul(rd) ==
    LET s == skip_bytes(rd, 2) IN
    IF ~s.ok THEN s
    ELSE LET m == read_bytes(s.rd, 12) IN
         IF ~m.ok THEN m
         ELSE IF SubSeq(m.val, 1, 11) # SubSeq(expected_magic, 1, 11)
         THEN Err(InvalidMagic(m.val))
         ELSE Ok(NoValue, m.rd)

validate_file_magic(rd) ==
    LET s == skip_bytes(rd, 2) IN
    IF ~s.ok THEN s
    ELSE LET m == read_bytes(s.rd, 12) IN
         IF ~m.ok THEN m
         ELSE IF m.val # expected_magic THEN Err(InvalidMagic(m.val))
         ELSE Ok(NoValue, m.rd)

\* Mutant of dimensions_invalid: only the width is checked.
dimensions_invalid_width_only(width, height) == width = 0

\* `width == 0 || height == 0`
dimensions_invalid(width, height) == width = 0 \/ height = 0

parse_header(rd) ==
    LET s1 == skip_bytes(rd, 10) IN
    IF ~s1.ok THEN s1 ELSE
    LET vb == read_bytes(s1.rd, 4) IN
    IF ~vb.ok THEN vb ELSE
    LET version == decode_puz_string(vb.val)
        s2 == skip_bytes(vb.rd, 16) IN
    IF ~s2.ok THEN s2 ELSE
    LET width == read_u8(s2.rd) IN
    IF ~width.ok THEN width ELSE
    LET height == read_u8(width.rd) IN
    IF ~height.ok THEN height ELSE
    LET num_clues == read_u16(height.rd) IN
    IF ~num_clues.ok THEN num_clues ELSE
    LET bitmask == read_u16(num_clues.rd) IN
    IF ~bitmask.ok THEN bitmask ELSE
    LET scrambled_tag == read_u16(bitmask.rd) IN
    IF ~scrambled_tag.ok THEN scrambled_tag ELSE
    IF dimensions_invalid(width.val, height.val)
    THEN Err(InvalidDimensions(width.val, height.val))
    ELSE Ok([width |-> width.val,
             height |-> height.val,
             num_clues |-> num_clues.val,
             version |-> trim_end_matches(version, 0),
             bitmask |-> bitmask.val,
             is_scrambled |-> scrambled_tag.val # 0],
            scrambled_tag.rd)

(***************************************************************************)
(* Grids (grids.rs, types.rs)                                              *)
(***************************************************************************)
\* '-'
FREE_SQUARE == 45
\* '.'
TAKEN_SQUARE == 46

\* The least element of a non-empty set of naturals: where a scan in index
\* order stops first.
First(S) == CHOOSE x \in S : \A y \in S : x <= y

\* s.chars().chunks(width): rows of `width` chars, the last one shorter when
\* the length is no multiple of width (width > 0).
\* Mutant of string_to_grid: the chunks are laid out last row first.
string_to_grid_bottom_up(s, width) ==
    LET n == (Len(s) + width - 1) \div width IN
    [r \in 1..n |-> SubSeq(s, (n - r) * width + 1, Min((n - r + 1) * width, Len(s)))]

string_to_grid(s, width) ==
    [r \in 1..((Len(s) + width - 1) \div width) |->
        SubSeq(s, (r - 1) * width + 1, Min(r * width, Len(s)))]

\* The rows (0-based) at which the per-row checks of validate_grid_consistency
\* fail: a byte length other than width, or a cell blocked in one grid only.
RowWidthBad(solution, blank, width, i) ==
    str_len(solution[i + 1]) # width \/ str_len(blank[i + 1]) # width

\* Mutant of RowBlockMismatches: only a blocked solution cell is compared.
RowBlockMismatches_one_way(sol_row, blank_row) ==
    {j \in 0..(Min(Len(sol_row), Len(blank_row)) - 1) :
        sol_row[j + 1] = TAKEN_SQUARE /\ blank_row[j + 1] # TAKEN_SQUARE}

RowBlockMismatches(sol_row, blank_row) ==
    {j \in 0..(Min(Len(sol_row), Len(blank_row)) - 1) :
        (sol_row[j + 1] = TAKEN_SQUARE) # (blank_row[j + 1] = TAKEN_SQUARE)}

validate_grid_consistency(solution, blank, width, height) ==
    IF Len(solution) # height \/ Len(blank) # height
    THEN Err(InvalidGrid([why |-> "Grid height mismatch"]))
    ELSE LET bad == {i \in 0..(height - 1) :
                        \/ RowWidthBad(solution, blank, width, i)
                        \/ RowBlockMismatches(solution[i + 1], blank[i + 1]) # {}}
         IN  IF bad = {} THEN Ok(NoValue, NoValue)
             ELSE LET i == First(bad) IN
                  IF RowWidthBad(solution, blank, width, i)
                  THEN Err(InvalidGrid([why |-> "Grid width mismatch", row |-> i]))
                  ELSE Err(InvalidGrid(
                           [why |-> "blocked squares don't match", row |-> i,
                            col |-> First(RowBlockMismatches(solution[i + 1],
                                                             blank[i + 1]))]))

\* `b as char` for every byte: the code point equals the byte value.
bytes_as_chars(bytes) == [i \in 1..Len(bytes) |-> bytes[i]]

parse_grids(rd, width, height) ==
    LET board_size == width * height
        solution_bytes == read_bytes(rd, board_size) IN
    IF ~solution_bytes.ok THEN solution_bytes ELSE
    LET blank_bytes == read_bytes(solution_bytes.rd, board_size) IN
    IF ~blank_bytes.ok THEN blank_bytes ELSE
    LET solution == string_to_grid(bytes_as_chars(solution_bytes.val), width)
        blank == string_to_grid(bytes_as_chars(blank_bytes.val), width)
        v == validate_grid_consistency(solution, blank, width, height) IN
    IF ~v.ok THEN v
    ELSE Ok([blank |-> blank, solution |-> solution], blank_bytes.rd)

\* Option<char>::None as a value no char equals.
NoChar == -1

\* grid.get(row).and_then(|r| r.chars().nth(col)): the char, or NoChar for
\* a position outside the grid (row and col are 0-based).
char_at(grid, row, col) ==
    IF row >= 0 /\ row < Len(grid) /\ col >= 0 /\ col < Len(grid[row + 1])
    THEN grid[row + 1][col + 1]
    ELSE NoChar

\* Mutant of cell_needs_across_clue: any cell to the left that is not free
\* starts an entry.
cell_needs_across_clue_after_any(grid, row, col) ==
    /\ char_at(grid, row, col) = FREE_SQUARE
    /\ char_at(grid, row, col + 1) = FREE_SQUARE
    /\ (col = 0 \/ char_at(grid, row, col - 1) # FREE_SQUARE)

cell_needs_across_clue(grid, row, col) ==
    /\ char_at(grid, row, col) = FREE_SQUARE
    /\ char_at(grid, row, col + 1) = FREE_SQUARE
    /\ (col = 0 \/ char_at(grid, row, col - 1) = TAKEN_SQUARE)

\* Mutant of cell_needs_down_clue: any cell above that is not free starts an
\* entry.
cell_needs_down_clue_after_any(grid, row, col) ==
    /\ char_at(grid, row, col) = FREE_SQUARE
    /\ char_at(grid, row + 1, col) = FREE_SQUARE
    /\ (row = 0 \/ char_at(grid, row - 1, col) # FREE_SQUARE)

cell_needs_down_clue(grid, row, col) ==
    /\ char_at(grid, row, col) = FREE_SQUARE
    /\ char_at(grid, row + 1, col) = FREE_SQUARE
    /\ (row = 0 \/ char_at(grid, row - 1, col) = TAKEN_SQUARE)

(***************************************************************************)
(* Strings (strings.rs, io.rs)                                             *)
(***************************************************************************)
read_string_until_nul(rd) ==
    LET nuls == {i \in (rd.pos + 1)..Len(rd.data) : rd.data[i] = 0} IN
    IF nuls = {} THEN Err(IoError)
    ELSE LET z == First(nuls) IN
         Ok(decode_puz_string(SubSeq(rd.data, rd.pos + 1, z - 1)),
            [rd EXCEPT !.pos = z])

RECURSIVE read_clues_counts_partial(_, _, _, _)
\* Mutant of read_clues: the clue the stream ended in is counted as found.
read_clues_counts_partial(rd, num_clues, i, acc) ==
    IF i >= num_clues THEN Ok(acc, rd)
    ELSE LET c == read_string_until_nul(rd) IN
         IF c.ok THEN read_clues_counts_partial(c.rd, num_clues, i + 1, Append(acc, c.val))
         ELSE Err(InvalidClueCount(num_clues, i + 1))

RECURSIVE read_clues(_, _, _, _)
\* The clue loop of parse_strings from iteration i on, `acc` the clues so far.
read_clues(rd, num_clues, i, acc) ==
    IF i >= num_clues THEN Ok(acc, rd)
    ELSE LET c == read_string_until_nul(rd) IN
         IF c.ok THEN read_clues(c.rd, num_clues, i + 1, Append(acc, c.val))
         ELSE Err(InvalidClueCount(num_clues, i))

parse_strings(rd, num_clues) ==
    LET title == read_string_until_nul(rd) IN
    IF ~title.ok THEN title ELSE
    LET author == read_string_until_nul(title.rd) IN
    IF ~author.ok THEN author ELSE
    LET copyright == read_string_until_nul(author.rd) IN
    IF ~copyright.ok THEN copyright ELSE
    LET cl == read_clues(copyright.rd, num_clues, 0, <<>>) IN
    IF ~cl.ok THEN cl ELSE
    LET notes == read_string_until_nul(cl.rd) IN
    IF ~notes.ok THEN notes ELSE
    IF Len(cl.val) # num_clues THEN Err(InvalidClueCount(num_clues, Len(cl.val)))
    ELSE Ok([title |-> title.val, author |-> author.val, copyright |-> copyright.val,
             notes |-> notes.val, clues |-> cl.val], notes.rd)

(***************************************************************************)
(* Clue derivation (clues.rs)                                              *)
(***************************************************************************)
\* HashMap::insert
insert(m, k, v) == [x \in (DOMAIN m) \cup {k} |-> IF x = k THEN v ELSE m[x]]

EmptyMap == <<>>

\* Mutant of clue_scan_init: the numbering starts at 0.
clue_scan_init_from_zero ==
    [across |-> EmptyMap, down |-> EmptyMap, clue_index |-> 0, clue_number |-> 0,
     failed |-> FALSE, err |-> NoValue]

\* The state of process_clues before the scan.
clue_scan_init ==
    [across |-> EmptyMap, down |-> EmptyMap, clue_index |-> 0, clue_number |-> 1,
     failed |-> FALSE, err |-> NoValue]

\* Mutant of next_clue_number: a number is left out after each one given.
next_clue_number_by_two(n) == (n + 2) % 65536

\* Mutant of next_clue_number: the counter has 2 bits.
next_clue_number_two_bits(n) == (n + 1) % 4

\* Mutant of next_clue_number: the number is never advanced.
next_clue_number_stuck(n) == n

\* clue_number += 1 on a u16.
next_clue_number(n) == (n + 1) % 65536

\* Used by the mutants of clue_step: one `if clue_index < clue_strings.len()`
\* block, which fills map dir under number n.
take_slot(st, dir, n, clue_strings) ==
    IF st.failed THEN st
    ELSE IF st.clue_index < Len(clue_strings)
    THEN [st EXCEPT ![dir] = insert(@, n, clue_strings[st.clue_index + 1]),
                    !.clue_index = st.clue_index + 1]
    ELSE [st EXCEPT !.failed = TRUE,
                    !.err = InvalidClues([why |-> "Not enough clues provided",
                                          dir |-> dir, position |-> n])]

\* Mutant of clue_step: a cell that starts both entries takes its down
\* string first.
clue_step_down_first(blank_grid, clue_strings, row, col, st) ==
    LET needs_across == cell_needs_across_clue(blank_grid, row, col)
        needs_down == cell_needs_down_clue(blank_grid, row, col)
        d == IF needs_down /\ needs_across
             THEN take_slot(st, "down", st.clue_number, clue_strings) ELSE st
        a == IF needs_across THEN take_slot(d, "across", st.clue_number, clue_strings)
             ELSE d
        e == IF needs_down /\ ~needs_across
             THEN take_slot(a, "down", st.clue_number, clue_strings) ELSE a
    IN  IF needs_across \/ needs_down
        THEN (IF e.failed THEN e
              ELSE [e EXCEPT !.clue_number = next_clue_number(e.clue_number)])
        ELSE st

\* One iteration of the inner loop of process_clues at (row, col), from the
\* loop state st; failed is set where the code returns Err.
clue_step(blank_grid, clue_strings, row, col, st) ==
    LET needs_across == cell_needs_across_clue(blank_grid, row, col)
        needs_down == cell_needs_down_clue(blank_grid, row, col)
        a == IF ~needs_across THEN st
             ELSE IF st.clue_index < Len(clue_strings)
             THEN [st EXCEPT !.across = insert(st.across, st.clue_number,
                                               clue_strings[st.clue_index + 1]),
                             !.clue_index = st.clue_index + 1]
             ELSE [st EXCEPT !.failed = TRUE,
                             !.err = InvalidClues([why |-> "Not enough clues provided",
                                                   dir |-> "across",
                                                   position |-> st.clue_number])]
        d == IF a.failed \/ ~needs_down THEN a
             ELSE IF a.clue_index < Len(clue_strings)
             THEN [a EXCEPT !.down = insert(a.down, a.clue_number,
                                            clue_strings[a.clue_index + 1]),
                            !.clue_index = a.clue_index + 1]
             ELSE [a EXCEPT !.failed = TRUE,
                            !.err = InvalidClues([why |-> "Not enough clues provided",
                                                  dir |-> "down",
                                                  position |-> a.clue_number])]
    IN  IF needs_across \/ needs_down
        THEN (IF d.failed THEN d
              ELSE [d EXCEPT !.clue_number = next_clue_number(d.clue_number)])
        ELSE st

RECURSIVE clue_scan(_, _, _, _, _)
\* The two nested loops of process_clues from cell k (row-major, 0-based) on.
clue_scan(blank_grid, clue_strings, width, k, st) ==
    IF st.failed \/ width = 0 \/ k >= Len(blank_grid) * width THEN st
    ELSE clue_scan(blank_grid, clue_strings, width, k + 1,
                   clue_step(blank_grid, clue_strings, k \div width, k % width, st))

\* `if height > 0 { grid[0].len() } else { 0 }`
grid_width(grid) == IF Len(grid) > 0 THEN str_len(grid[1]) ELSE 0

\* Mutant of process_clues: the two maps are returned in each other's place.
process_clues_maps_swapped(blank_grid, clue_strings) ==
    LET st == clue_scan(blank_grid, clue_strings, grid_width(blank_grid), 0,
                        clue_scan_init) IN
    IF st.failed THEN Err(st.err)
    ELSE IF st.clue_index < Len(clue_strings)
    THEN Err(InvalidClues([why |-> "Too many clues provided",
                           expected |-> st.clue_index, got |-> Len(clue_strings)]))
    ELSE Ok([across |-> st.down, down |-> st.across], NoValue)

\* Mutant of process_clues: unused clue strings are not an error.
process_clues_no_surplus_check(blank_grid, clue_strings) ==
    LET st == clue_scan(blank_grid, clue_strings, grid_width(blank_grid), 0,
                        clue_scan_init) IN
    IF st.failed THEN Err(st.err)
    ELSE Ok([across |-> st.across, down |-> st.down], NoValue)

process_clues(blank_grid, clue_strings) ==
    LET st == clue_scan(blank_grid, clue_strings, grid_width(blank_grid), 0,
                        clue_scan_init) IN
    IF st.failed THEN Err(st.err)
    ELSE IF st.clue_index < Len(clue_strings)
    THEN Err(InvalidClues([why |-> "Too many clues provided",
                           expected |-> st.clue_index, got |-> Len(clue_strings)]))
    ELSE Ok([across |-> st.across, down |-> st.down], NoValue)

(***************************************************************************)
(* Validation (validation.rs)                                              *)
(***************************************************************************)
validate_puzzle_dimensions(width, height) ==
    IF width = 0 \/ height = 0 THEN Err(InvalidDimensions(width, height))
    ELSE Ok(NoValue, NoValue)

\* c.is_ascii_alphanumeric() || matches!(c, ' ' | '-' | '\'' | '&' | '.' | '!' | '?')
\* Mutant of is_valid_puzzle_char: every character is let through.
is_valid_puzzle_char_any(c) == TRUE

is_valid_puzzle_char(c) ==
    \/ (c >= 48 /\ c <= 57) \/ (c >= 65 /\ c <= 90) \/ (c >= 97 /\ c <= 122)
    \/ c \in {32, 45, 39, 38, 46, 33, 63}

\* The columns (0-based) of a row pair at which validate_grid_structure fails.
RowStructureBad(blank_row, solution_row) ==
    {j \in 0..(Min(Len(blank_row), Len(solution_row)) - 1) :
        \/ (blank_row[j + 1] = TAKEN_SQUARE) # (solution_row[j + 1] = TAKEN_SQUARE)
        \/ (blank_row[j + 1] # TAKEN_SQUARE /\ ~is_valid_puzzle_char(solution_row[j + 1]))}

validate_grid_structure(blank, solution) ==
    IF Len(blank) # Len(solution)
    THEN Err(InvalidGrid([why |-> "Blank and solution grids have different heights"]))
    ELSE LET bad == {i \in 0..(Len(blank) - 1) :
                        \/ str_len(blank[i + 1]) # str_len(solution[i + 1])
                        \/ RowStructureBad(blank[i + 1], solution[i + 1]) # {}}
         IN  IF bad = {} THEN Ok(NoValue, NoValue)
             ELSE LET i == First(bad) IN
                  IF str_len(blank[i + 1]) # str_len(solution[i + 1])
                  THEN Err(InvalidGrid([why |-> "mismatched widths", row |-> i]))
                  ELSE LET j == First(RowStructureBad(blank[i + 1], solution[i + 1])) IN
                       IF (blank[i + 1][j + 1] = TAKEN_SQUARE)
                              # (solution[i + 1][j + 1] = TAKEN_SQUARE)
                       THEN Err(InvalidGrid([why |-> "Blocked square mismatch",
                                             row |-> i, col |-> j]))
                       ELSE Err(InvalidGrid([why |-> "Invalid character",
                                             char |-> solution[i + 1][j + 1],
                                             row |-> i, col |-> j]))

\* (across_count, down_count) of the grid.
count_expected_clues(grid) ==
    LET cells == (0..(Len(grid) - 1)) \X (0..(grid_width(grid) - 1)) IN
    <<Cardinality({p \in cells : cell_needs_across_clue(grid, p[1], p[2])}),
      Cardinality({p \in cells : cell_needs_down_clue(grid, p[1], p[2])})>>

validate_clue_consistency(puzzle) ==
    LET expected == count_expected_clues(puzzle.grid.blank)
        actual_across == Cardinality(DOMAIN puzzle.clues.across)
        actual_down == Cardinality(DOMAIN puzzle.clues.down) IN
    IF actual_across # expected[1]
    THEN Err(InvalidClues([why |-> "Across clue count mismatch",
                           expected |-> expected[1], got |-> actual_across]))
    ELSE IF actual_down # expected[2]
    THEN Err(InvalidClues([why |-> "Down clue count mismatch",
                           expected |-> expected[2], got |-> actual_down]))
    ELSE Ok(NoValue, NoValue)

validate_puzzle(puzzle) ==
    LET d == validate_puzzle_dimensions(puzzle.info.width, puzzle.info.height) IN
    IF ~d.ok THEN d ELSE
    LET g == validate_grid_structure(puzzle.grid.blank, puzzle.grid.solution) IN
    IF ~g.ok THEN g ELSE
    validate_clue_consistency(puzzle)

(***************************************************************************)
(* Extension sections (io.rs, extensions.rs)                               *)
(***************************************************************************)
None == [kind |-> "None"]
Some(x) == [kind |-> "Some", val |-> x]

\* "GRBS", "RTBL", "GEXT" as bytes.
GRBS == <<71, 82, 66, 83>>
RTBL == <<82, 84, 66, 76>>
GEXT == <<71, 69, 88, 84>>

\* The 0-based positions at which the tag occurs in data.
TagPositions(data, section_name) ==
    {i \in 0..(Len(data) - Len(section_name)) :
        SubSeq(data, i + 1, i + Len(section_name)) = section_name}

\* Mutant of find_section: a payload that runs past the end of the buffer is
\* returned cut short instead of being treated as absent.
find_section_unchecked(data, section_name) ==
    LET at == TagPositions(data, section_name) IN
    IF at = {} THEN None
    ELSE LET index == First(at)
             length_start == index + Len(section_name) IN
         IF length_start + 2 <= Len(data)
         THEN LET data_length == read_u16_le(SubSeq(data, length_start + 1,
                                                    length_start + 2))
                  data_start == length_start + 4
                  data_end == data_start + data_length IN
              IF data_start <= Len(data)
              THEN Some(SubSeq(data, data_start + 1, Min(data_end, Len(data))))
              ELSE None
         ELSE None

\* Mutant of find_section: an occurrence of the tag that fails a bounds check
\* is passed over and the next one is tried.
find_section_next_occurrence(data, section_name) ==
    LET at == {i \in TagPositions(data, section_name) :
                  /\ i + Len(section_name) + 2 <= Len(data)
                  /\ i + Len(section_name) + 4
                       + read_u16_le(SubSeq(data, i + Len(section_name) + 1,
                                            i + Len(section_name) + 2)) <= Len(data)} IN
    IF at = {} THEN None
    ELSE LET data_start == First(at) + Len(section_name) + 4
             data_length == read_u16_le(SubSeq(data, First(at) + Len(section_name) + 1,
                                               First(at) + Len(section_name) + 2)) IN
         Some(SubSeq(data, data_start + 1, data_start + data_length))

\* Mutant of find_section: the two checksum bytes are not skipped.
find_section_checksum_as_data(data, section_name) ==
    LET at == TagPositions(data, section_name) IN
    IF at = {} THEN None
    ELSE LET index == First(at)
             length_start == index + Len(section_name) IN
         IF length_start + 2 <= Len(data)
         THEN LET data_length == read_u16_le(SubSeq(data, length_start + 1,
                                                    length_start + 2))
                  data_start == length_start + 2
                  data_end == data_start + data_length IN
              IF data_end <= Len(data)
              THEN Some(SubSeq(data, data_start + 1, data_end))
              ELSE None
         ELSE None

\* find_section never fails: Some(payload) or None.
find_section(data, section_name) ==
    LET at == TagPositions(data, section_name) IN
    IF at = {} THEN None
    ELSE LET index == First(at)
             length_start == index + Len(section_name) IN
         IF length_start + 2 <= Len(data)
         THEN LET data_length == read_u16_le(SubSeq(data, length_start + 1,
                                                    length_start + 2))
                  data_start == length_start + 4
                  data_end == data_start + data_length IN
              IF data_end <= Len(data)
              THEN Some(SubSeq(data, data_start + 1, data_end))
              ELSE None
         ELSE None

\* char::is_whitespace (the Unicode White_Space property), as str::trim uses.
is_whitespace(c) ==
    \/ (c >= 9 /\ c <= 13) \/ c \in {32, 133, 160, 5760, 8232, 8233, 8239, 8287, 12288}
    \/ (c >= 8192 /\ c <= 8202)

RECURSIVE trim_start(_)
trim_start(s) == IF s # <<>> /\ is_whitespace(s[1]) THEN trim_start(Tail(s)) ELSE s

RECURSIVE trim_end(_)
trim_end(s) ==
    IF s # <<>> /\ is_whitespace(s[Len(s)]) THEN trim_end(SubSeq(s, 1, Len(s) - 1)) ELSE s

trim(s) == trim_end(trim_start(s))

\* The 1-based positions of char c in s.
Positions(s, c) == {i \in 1..Len(s) : s[i] = c}

RECURSIVE split(_, _)
\* str::split on a char: the pieces between separators, empty ones included.
split(s, sep) ==
    IF Positions(s, sep) = {} THEN <<s>>
    ELSE LET i == First(Positions(s, sep)) IN
         <<SubSeq(s, 1, i - 1)>> \o split(SubSeq(s, i + 1, Len(s)), sep)

RECURSIVE digits_value(_, _)
\* The value of a string of decimal digits, accumulated from acc; -1 when a
\* char is no digit or the value leaves u8.
digits_value(s, acc) ==
    IF s = <<>> THEN acc
    ELSE IF s[1] < 48 \/ s[1] > 57 THEN -1
    ELSE LET v == acc * 10 + (s[1] - 48) IN
         IF v > 255 THEN -1 ELSE digits_value(Tail(s), v)

\* str::parse::<u8>: decimal digits after an optional '+'; [ok, val].
parse_u8(s) ==
    LET body == IF s # <<>> /\ s[1] = 43 THEN Tail(s) ELSE s
        v == IF body = <<>> THEN -1 ELSE digits_value(body, 0) IN
    [ok |-> v >= 0, val |-> v]

RECURSIVE rtbl_table_stops_at_bad_entry(_, _)
\* Mutant of rtbl_table: the first entry that is not key:value ends the loop.
rtbl_table_stops_at_bad_entry(entries, table) ==
    IF entries = <<>> THEN table
    ELSE LET entry == Head(entries)
             colons == Positions(entry, 58) IN
         IF trim(entry) = <<>> THEN rtbl_table_stops_at_bad_entry(Tail(entries), table)
         ELSE IF colons = {} THEN table
         ELSE LET colon_pos == First(colons)
                  key == parse_u8(trim(SubSeq(entry, 1, colon_pos - 1)))
                  value == trim(SubSeq(entry, colon_pos + 1, Len(entry))) IN
              IF key.ok
              THEN rtbl_table_stops_at_bad_entry(Tail(entries),
                                                 insert(table, key.val, value))
              ELSE table

RECURSIVE rtbl_table(_, _)
\* The loop of parse_rebus over the entries: the table after them.
rtbl_table(entries, table) ==
    IF entries = <<>> THEN table
    ELSE LET entry == Head(entries)
             colons == Positions(entry, 58) IN
         IF trim(entry) = <<>> \/ colons = {} THEN rtbl_table(Tail(entries), table)
         ELSE LET colon_pos == First(colons)
                  key == parse_u8(trim(SubSeq(entry, 1, colon_pos - 1)))
                  value == trim(SubSeq(entry, colon_pos + 1, Len(entry))) IN
              IF key.ok THEN rtbl_table(Tail(entries), insert(table, key.val, value))
              ELSE rtbl_table(Tail(entries), table)

\* slice.chunks(width) of a byte payload.
chunks(bytes, width) ==
    [r \in 1..((Len(bytes) + width - 1) \div width) |->
        SubSeq(bytes, (r - 1) * width + 1, Min(r * width, Len(bytes)))]

\* slice::chunks panics when the chunk size is 0, before the RTBL is decoded.
parse_rebus(grbs_data, rtbl_data, width, height) ==
    IF Len(grbs_data) # width * height
    THEN Err(SectionSizeMismatch("GRBS", width * height, Len(grbs_data)))
    ELSE IF width = 0 THEN Panic("chunk size must be non-zero")
    ELSE Ok([grid |-> chunks(grbs_data, width),
             table |-> rtbl_table(split(decode_puz_string(rtbl_data), 59), EmptyMap)],
            NoValue)

\* Mutant of bit_set: any byte at or above the mask counts.
bit_set_at_least(byte, mask) == byte >= mask

\* byte & mask != 0 for a one-bit mask.
bit_set(byte, mask) == (byte \div mask) % 2 = 1

parse_gext(data, width, height) ==
    IF Len(data) # width * height
    THEN Err(SectionSizeMismatch("GEXT", width * height, Len(data)))
    ELSE LET circles == [r \in 1..height |->
                            [c \in 1..width |-> bit_set(data[(r - 1) * width + c], 128)]]
             given == [r \in 1..height |->
                          [c \in 1..width |-> bit_set(data[(r - 1) * width + c], 64)]]
             has_circles == \E i \in 1..Len(data) : bit_set(data[i], 128)
             has_given == \E i \in 1..Len(data) : bit_set(data[i], 64) IN
         Ok([circles |-> IF has_circles THEN Some(circles) ELSE None,
             given |-> IF has_given THEN Some(given) ELSE None], NoValue)

\* Mutant of grbs_size_mismatch: a payload longer than the grid is let through.
grbs_size_mismatch_short_only(section_data, expected_size) ==
    Len(section_data) < expected_size

\* `section_data.len() != expected_size` of the GRBS arm.
grbs_size_mismatch(section_data, expected_size) == Len(section_data) # expected_size

\* The GRBS arm of the section loop, from the loop state st.
ext_grbs(data, width, height, st) ==
    LET section == find_section(data, GRBS)
        expected_size == width * height IN
    IF section.kind = "None" THEN st
    ELSE IF grbs_size_mismatch(section.val, expected_size)
    THEN [st EXCEPT !.warnings =
              Append(@, SkippedExtension("GRBS",
                         [why |-> "Size mismatch", expected |-> expected_size,
                          got |-> Len(section.val)]))]
    ELSE LET rtbl == find_section(data, RTBL) IN
         IF rtbl.kind = "None"
         THEN [st EXCEPT !.warnings =
                   Append(@, SkippedExtension("GRBS",
                              [why |-> "RTBL section not found"]))]
         ELSE LET parsed == parse_rebus(section.val, rtbl.val, width, height) IN
              IF parsed.ok THEN [st EXCEPT !.rebus = Some(parsed.val)]
              ELSE IF parsed.err.kind = "Panic" THEN [st EXCEPT !.panicked = TRUE]
              ELSE [st EXCEPT !.warnings =
                        Append(@, SkippedExtension("GRBS/RTBL",
                                   [why |-> "Failed to parse rebus data",
                                    err |-> parsed.err]))]

\* The RTBL arm: handled with GRBS.
ext_rtbl(data, width, height, st) == st

\* Mutant of ext_gext: skipping a wrongly sized GEXT also drops the rebus.
ext_gext_drops_rebus(data, width, height, st) ==
    LET section == find_section(data, GEXT)
        expected_size == width * height IN
    IF st.panicked \/ section.kind = "None" THEN st
    ELSE IF Len(section.val) # expected_size
    THEN [st EXCEPT !.rebus = None,
                    !.warnings =
              Append(@, SkippedExtension("GEXT",
                         [why |-> "Size mismatch", expected |-> expected_size,
                          got |-> Len(section.val)]))]
    ELSE LET parsed == parse_gext(section.val, width, height) IN
         IF parsed.ok
         THEN [st EXCEPT !.circles = parsed.val.circles, !.given = parsed.val.given]
         ELSE [st EXCEPT !.warnings =
                   Append(@, SkippedExtension("GEXT",
                              [why |-> "Failed to parse GEXT data",
                               err |-> parsed.err]))]

\* The GEXT arm of the section loop.
ext_gext(data, width, height, st) ==
    LET section == find_section(data, GEXT)
        expected_size == width * height IN
    IF st.panicked \/ section.kind = "None" THEN st
    ELSE IF Len(section.val) # expected_size
    THEN [st EXCEPT !.warnings =
              Append(@, SkippedExtension("GEXT",
                         [why |-> "Size mismatch", expected |-> expected_size,
                          got |-> Len(section.val)]))]
    ELSE LET parsed == parse_gext(section.val, width, height) IN
         IF parsed.ok
         THEN [st EXCEPT !.circles = parsed.val.circles, !.given = parsed.val.given]
         ELSE [st EXCEPT !.warnings =
                   Append(@, SkippedExtension("GEXT",
                              [why |-> "Failed to parse GEXT data",
                               err |-> parsed.err]))]

\* The loop over EXTRA_SECTIONS, in its order GRBS, RTBL, GEXT.
parse_extensions_with_recovery(data, width, height) ==
    LET st0 == [rebus |-> None, circles |-> None, given |-> None, warnings |-> <<>>,
                panicked |-> FALSE]
        st1 == ext_grbs(data, width, height, st0)
        st2 == ext_rtbl(data, width, height, st1)
        st3 == ext_gext(data, width, height, st2) IN
    IF st3.panicked THEN Panic("chunk size must be non-zero")
    ELSE
    Ok([extensions |-> [rebus |-> st3.rebus, circles |-> st3.circles,
                        given |-> st3.given],
        warnings |-> st3.warnings], NoValue)

(***************************************************************************)
(* Input files                                                             *)
(***************************************************************************)
\* The most cells (width * height) of a grid whose blank cells are enumerated
\* over the free and the blocked marker.
MaxCells == 9
\* The most cells of a grid whose solution and blank bytes are enumerated
\* over letters, markers and bytes outside the puzzle alphabet.
MaxGridCells == 2

\* The widths and heights with at most n cells.
Dims(n) == {d \in (1..n) \X (1..n) : d[1] * d[2] <= n}

\* The 52 bytes before the grids; junk fills every field the parser skips.
FileHead(junk, magic, version, w, h, num_clues, scrambled_tag) ==
    <<junk, junk>> \o magic \o Repeat(junk, 10) \o version \o Repeat(junk, 16)
    \o <<w, h>> \o LE16(num_clues) \o LE16(junk) \o LE16(scrambled_tag)

RECURSIVE ClueBytes(_, _)
\* Clue strings i, i+1, ..., n-1 of a file: clue i is the letter 'a' + i.
ClueBytes(i, n) == IF i >= n THEN <<>> ELSE <<97 + (i % 26), 0>> \o ClueBytes(i + 1, n)

\* Title "T", empty author, copyright "C", n clues, notes "N".
StringBytes(n) == <<84, 0, 0, 67, 0>> \o ClueBytes(0, n) \o <<78, 0>>

\* A solution for a blank grid: blocked where blank is, else a letter that
\* depends on the cell.
SolutionFor(blank) ==
    [i \in 1..Len(blank) |-> IF blank[i] = TAKEN_SQUARE THEN TAKEN_SQUARE
                             ELSE 65 + ((i - 1) % 26)]

\* The number of clue slots the flat blank bytes need at width w.
NeededSlots(blank, w) ==
    LET n == count_expected_clues(string_to_grid(bytes_as_chars(blank), w)) IN n[1] + n[2]

GoodMagic == expected_magic
\* "1.3\0"
GoodVersion == <<49, 46, 51, 0>>

\* A well-formed file around the given grids, clue count and tail.
GoodFile(w, h, solution, blank, num_clues, tail) ==
    FileHead(0, GoodMagic, GoodVersion, w, h, num_clues, 0)
    \o solution \o blank \o StringBytes(num_clues) \o tail

\* Files that vary what the magic check and the header read.
Junk == {0, 171}
Magics ==
    {GoodMagic,
     <<73, 78, 86, 65, 76, 73, 68, 95, 77, 71, 73, 67>>,      \* "INVALID_MGIC"
     <<65, 67, 82, 79, 83, 83, 38, 68, 79, 87, 78, 32>>}      \* "ACROSS&DOWN "
Versions == {GoodVersion, <<50, 0, 0, 0>>, <<49, 46, 147, 0>>}
HeaderDims == {0, 1, 2, 255}
ScrambledTags == {0, 4, 256}

AllFree(n) == Repeat(FREE_SQUARE, n)

\* The grids, strings and clue count that follow a header of w x h: an all-free
\* grid when it is small, no grid bytes when a dimension is 0, and nothing at
\* all (the stream ends after the header) when the grid would be large.
HeaderFits(w, h) == w >= 1 /\ h >= 1 /\ w * h <= MaxCells
HeaderClues(w, h) == IF HeaderFits(w, h) THEN NeededSlots(AllFree(w * h), w) ELSE 0
HeaderBody(w, h) ==
    IF HeaderFits(w, h)
    THEN SolutionFor(AllFree(w * h)) \o AllFree(w * h) \o StringBytes(HeaderClues(w, h))
    ELSE IF w * h = 0 THEN StringBytes(0)
    ELSE <<>>

FilesHeader ==
    {FileHead(j, m, v, w, h, HeaderClues(w, h), st) \o HeaderBody(w, h) :
       j \in Junk, m \in Magics, v \in Versions, w \in HeaderDims, h \in HeaderDims,
       st \in ScrambledTags}

\* Files over every blank grid of free and blocked cells, with one clue
\* string fewer than, as many as and one more than the grid needs.
FilesClues ==
    UNION {UNION {{GoodFile(d[1], d[2], SolutionFor(blank), blank, n, <<>>) :
                     n \in {m \in {NeededSlots(blank, d[1]) - 1, NeededSlots(blank, d[1]),
                                   NeededSlots(blank, d[1]) + 1} : m >= 0}} :
                  blank \in [1..(d[1] * d[2]) -> {FREE_SQUARE, TAKEN_SQUARE}]} :
           d \in Dims(MaxCells)}

\* 'A', '.', '#', 0xC9
SolutionBytes == {65, 46, 35, 201}
\* '-', '.', 'X', 0x80
BlankBytes == {45, 46, 88, 128}

\* Files over every pair of small grids of those bytes.
FilesGrids ==
    UNION {{GoodFile(d[1], d[2], solution, blank, NeededSlots(blank, d[1]), <<>>) :
              solution \in [1..(d[1] * d[2]) -> SolutionBytes],
              blank \in [1..(d[1] * d[2]) -> BlankBytes]} :
           d \in Dims(MaxGridCells)}

\* tag, little-endian declared length, 2 checksum bytes, payload.
Section(tag, declared, payload) == tag \o LE16(declared) \o <<0, 0>> \o payload

\* " 5:AB;7 : C" as bytes
RtblText == <<32, 53, 58, 65, 66, 59, 55, 32, 58, 32, 67>>

\* Sections for a 2 x 2 puzzle: well sized, wrongly sized, declaring more
\* bytes than follow, and one whose payload holds another section.
SectionBlobs ==
    {Section(GRBS, 4, <<0, 5, 0, 7>>), Section(GRBS, 3, <<5, 0, 7>>),
     Section(GRBS, 5, <<0, 5, 0, 7, 0>>), Section(GRBS, 4, <<0, 5>>), GRBS \o <<4>>,
     Section(RTBL, Len(RtblText), RtblText), Section(RTBL, Len(RtblText) + 1, RtblText),
     Section(GEXT, 4, <<128, 64, 192, 63>>), Section(GEXT, 4, <<0, 0, 0, 0>>),
     Section(GEXT, 4, <<0, 128, 0, 0>>), Section(GEXT, 3, <<128, 64, 0>>),
     Section(GEXT, 4, <<128, 64>>),
     Section(GRBS, 12, Section(GEXT, 4, <<128, 64, 192, 63>>))}

Tails == {a \o b \o c : a \in SectionBlobs \cup {<<>>}, b \in SectionBlobs \cup {<<>>},
                        c \in SectionBlobs \cup {<<>>}}

FilesExtensions == {GoodFile(2, 2, SolutionFor(AllFree(4)), AllFree(4), 4, t) : t \in Tails}

\* Every proper prefix of a few files: the stream ends early.
TruncatedBases ==
    {GoodFile(2, 2, SolutionFor(AllFree(4)), AllFree(4), 4,
              Section(GEXT, 4, <<128, 64, 192, 63>>)),
     GoodFile(2, 1, <<65, 46>>, <<45, 45>>, 1, <<>>),
     FileHead(0, <<73, 78, 86, 65, 76, 73, 68, 95, 77, 71, 73, 67>>, GoodVersion, 2, 2, 4, 0)
       \o SolutionFor(AllFree(4)) \o AllFree(4) \o StringBytes(4),
     FileHead(0, GoodMagic, GoodVersion, 0, 2, 0, 0) \o StringBytes(0)}

FilesTruncated == UNION {{SubSeq(f, 1, n) : n \in 0..(Len(f) - 1)} : f \in TruncatedBases}

\* The 3 x 3 grids "ABC.DEFGH" and "---.-----" with the strings they need.
ExampleFile ==
    GoodFile(3, 3, <<65, 66, 67, 46, 68, 69, 70, 71, 72>>,
             <<45, 45, 45, 46, 45, 45, 45, 45, 45>>,
             NeededSlots(<<45, 45, 45, 46, 45, 45, 45, 45, 45>>, 3), <<>>)

InputFiles == FilesHeader \cup FilesClues \cup FilesGrids \cup FilesExtensions
              \cup FilesTruncated \cup {ExampleFile}

(***************************************************************************)
(* parse_puzzle (mod.rs)                                                   *)
(***************************************************************************)
Init ==
    /\ buf_reader \in {[data |-> f, pos |-> 0] : f \in InputFiles}
    /\ pc = "magic"
    /\ header = NoValue
    /\ grids = NoValue
    /\ strings = NoValue
    /\ extensions = NoValue
    /\ clues = NoValue
    /\ warnings = <<>>
    /\ result = Pending
    /\ call = NoValue
    /\ ret = NoValue

ReturnErr(e) == [kind |-> "Err", err |-> e]
ReturnOk(puzzle, w) == [kind |-> "Ok", puzzle |-> puzzle, warnings |-> w]

\* `stage(...)?`: go on to `next` with the reader the stage left, or return
\* the stage's error.
question_mark(r, next) ==
    IF r.ok
    THEN /\ pc' = next
         /\ result' = result
         /\ buf_reader' = IF r.rd = NoValue THEN buf_reader ELSE r.rd
    ELSE /\ pc' = "done"
         /\ result' = ReturnErr(r.err)
         /\ buf_reader' = buf_reader

ValidateFileMagic ==
    /\ pc = "magic"
    /\ \E r \in {validate_file_magic(buf_reader)} : question_mark(r, "header")
    /\ UNCHANGED <<call, ret, header, grids, strings, extensions, clues, warnings>>

\* parse_header and the scrambled check after it.
ParseHeader ==
    /\ pc = "header"
    /\ \E r \in {parse_header(buf_reader)} :
       /\ question_mark(r, "grids")
       /\ header' = IF r.ok THEN r.val ELSE header
       /\ warnings' = IF r.ok /\ r.val.is_scrambled
                      THEN Append(warnings, ScrambledPuzzle(r.val.version))
                      ELSE warnings
    /\ UNCHANGED <<call, ret, grids, strings, extensions, clues>>

ParseGrids ==
    /\ pc = "grids"
    /\ \E r \in {parse_grids(buf_reader, header.width, header.height)} :
       /\ question_mark(r, "strings")
       /\ grids' = IF r.ok THEN r.val ELSE grids
    /\ UNCHANGED <<call, ret, header, strings, extensions, clues, warnings>>

ParseStrings ==
    /\ pc = "strings"
    /\ \E r \in {parse_strings(buf_reader, header.num_clues)} :
       /\ question_mark(r, "extensions")
       /\ strings' = IF r.ok THEN r.val ELSE strings
    /\ UNCHANGED <<call, ret, header, grids, extensions, clues, warnings>>

\* read_remaining_data, parse_extensions_with_recovery, warnings.extend.
ParseExtensions ==
    /\ pc = "extensions"
    /\ \E extra_data \in {read_remaining_data(buf_reader)} :
       \E r \in {parse_extensions_with_recovery(extra_data.val, header.width,
                                                header.height)} :
       /\ question_mark(IF r.ok THEN Ok(r.val, extra_data.rd) ELSE r, "clues")
       /\ extensions' = IF r.ok THEN r.val.extensions ELSE extensions
       /\ warnings' = IF r.ok THEN warnings \o r.val.warnings ELSE warnings
    /\ UNCHANGED <<call, ret, header, grids, strings, clues>>

ProcessClues ==
    /\ pc = "clues"
    /\ \E r \in {process_clues(grids.blank, strings.clues)} :
       /\ question_mark(r, "validate")
       /\ clues' = IF r.ok THEN r.val ELSE clues
    /\ UNCHANGED <<call, ret, header, grids, strings, extensions, warnings>>

\* The Puzzle parse_puzzle assembles from the stages' values.
puzzle_of(hd, gr, st, ex, cl) ==
    [info |-> [title |-> st.title, author |-> st.author, copyright |-> st.copyright,
               notes |-> st.notes, width |-> hd.width, height |-> hd.height,
               version |-> hd.version, is_scrambled |-> hd.is_scrambled],
     grid |-> gr,
     clues |-> cl,
     extensions |-> ex]

\* Mutant of final_result: a validation failure no longer fails the parse.
final_result_lenient(v, puzzle, w) == ReturnOk(puzzle, w)

\* The match on validate_puzzle and the final Ok.
final_result(v, puzzle, w) ==
    IF v.ok THEN ReturnOk(puzzle, w) ELSE ReturnErr(v.err)

ValidatePuzzle ==
    /\ pc = "validate"
    /\ \E puzzle \in {puzzle_of(header, grids, strings, extensions, clues)} :
       result' = final_result(validate_puzzle(puzzle), puzzle, warnings)
    /\ pc' = "done"
    /\ UNCHANGED <<call, ret, buf_reader, header, grids, strings, extensions, clues, warnings>>

Next ==
    \/ ValidateFileMagic
    \/ ParseHeader
    \/ ParseGrids
    \/ ParseStrings
    \/ ParseExtensions
    \/ ProcessClues
    \/ ValidatePuzzle

Spec == Init /\ [][Next]_vars

(***************************************************************************)
(* parse_puzzle as a function of the input bytes: the same stages, each    *)
(* `?` returning its error, written back to front                          *)
(***************************************************************************)
\* The Puzzle, validate_puzzle and the return.
after_clues(h, g, s, e, c) ==
    IF ~c.ok THEN ReturnErr(c.err)
    ELSE CHOOSE r \in
           {final_result(validate_puzzle(puzzle), puzzle,
                         (IF h.val.is_scrambled
                          THEN <<ScrambledPuzzle(h.val.version)>> ELSE <<>>)
                         \o e.val.warnings) :
              puzzle \in {puzzle_of(h.val, g.val, s.val, e.val.extensions, c.val)}} : TRUE

after_extensions(h, g, s, e) ==
    IF ~e.ok THEN ReturnErr(e.err)
    ELSE CHOOSE r \in {after_clues(h, g, s, e, c) :
                         c \in {process_clues(g.val.blank, s.val.clues)}} : TRUE

after_strings(h, g, s) ==
    IF ~s.ok THEN ReturnErr(s.err)
    ELSE CHOOSE r \in {after_extensions(h, g, s, e) :
                         e \in {parse_extensions_with_recovery(
                                   read_remaining_data(s.rd).val,
                                   h.val.width, h.val.height)}} : TRUE

after_grids(h, g) ==
    IF ~g.ok THEN ReturnErr(g.err)
    ELSE CHOOSE r \in {after_strings(h, g, s) :
                         s \in {parse_strings(g.rd, h.val.num_clues)}} : TRUE

after_header(h) ==
    IF ~h.ok THEN ReturnErr(h.err)
    ELSE CHOOSE r \in {after_grids(h, g) :
                         g \in {parse_grids(h.rd, h.val.width, h.val.height)}} : TRUE

after_magic(m) ==
    IF ~m.ok THEN ReturnErr(m.err)
    ELSE CHOOSE r \in {after_header(h) : h \in {parse_header(m.rd)}} : TRUE

parse_puzzle(data) ==
    CHOOSE r \in {after_magic(m) :
                    m \in {validate_file_magic([data |-> data, pos |-> 0])}} : TRUE

(***************************************************************************)
(* Functions of the parser called on their own, on arguments parse_puzzle  *)
(* may or may not be able to pass them                                     *)
(***************************************************************************)
\* Sections for grids of 0, 1 and 2 cells, next to those for 2 x 2.
SmallBlobs ==
    {Section(GRBS, 0, <<>>), Section(RTBL, 0, <<>>), Section(GEXT, 0, <<>>),
     Section(GRBS, 1, <<5>>), Section(GRBS, 2, <<0, 7>>), Section(GEXT, 1, <<192>>),
     Section(GEXT, 2, <<64, 129>>)}

\* Tails of at most two sections.
CallTails ==
    {a \o b : a \in SectionBlobs \cup SmallBlobs \cup {<<>>},
              b \in SectionBlobs \cup SmallBlobs \cup {<<>>}}

\* Every width and height up to 2, the two that parse_header rejects included.
CallDims == (0..2) \X (0..2)

ExtensionCalls ==
    {[fn |-> "parse_extensions_with_recovery", data |-> t, width |-> d[1],
      height |-> d[2]] : t \in CallTails, d \in CallDims}

\* Buffers for find_section: a section after a stray byte, one whose length
\* needs the high byte, one after half a tag, one whose declared length runs
\* into the next section, one with a checksum that is not 0, a tag with a
\* length that runs past the end before a section of the same tag, and a
\* section inside the payload of another before a section of its own tag.
SectionBuffers ==
    {<<7>> \o Section(GRBS, 3, <<1, 2, 3>>) \o <<9>>,
     Section(GEXT, 258, Repeat(1, 258)),
     <<71, 82>> \o Section(GRBS, 0, <<>>),
     Section(RTBL, 4, <<1>>) \o Section(RTBL, 1, <<2>>),
     GEXT \o LE16(2) \o <<255, 254>> \o <<5, 6>> \o Section(GRBS, 1, <<8>>),
     GEXT \o LE16(200) \o <<0, 0, 1>> \o Section(GEXT, 1, <<192>>),
     Section(GRBS, 10, <<9>> \o Section(GEXT, 1, <<64>>)) \o Section(GEXT, 2, <<128, 192>>)}

\* Every prefix of those buffers: the buffer ends at every place.
FindSectionCalls ==
    UNION {{[fn |-> "find_section", data |-> SubSeq(b, 1, n), section_name |-> tag] :
              n \in 0..Len(b), tag \in {GRBS, RTBL, GEXT}} : b \in SectionBuffers}

\* The most cells of a grid whose GEXT bytes are enumerated.
MaxGextCells == 2
\* Bytes with each combination of bit 0x80, bit 0x40 and the six low bits.
GextBytes == {0, 63, 64, 127, 128, 191, 192, 255}

\* A GEXT section of the grid's size, over every payload of those bytes.
GextCalls ==
    UNION {{[fn |-> "parse_extensions_with_recovery",
             data |-> Section(GEXT, d[1] * d[2], payload),
             width |-> d[1], height |-> d[2]] :
              payload \in [1..(d[1] * d[2]) -> GextBytes]} : d \in Dims(MaxGextCells)}

\* The longest byte string enumerated for the decoder.
MaxText == 3
\* NUL, a letter, bytes of the substitution range, of the range above it,
\* and lead and continuation bytes of 2-, 3- and 4-byte sequences.
TextBytes == {0, 65, 128, 130, 147, 159, 160, 169, 172, 194, 224, 226, 237, 240, 255}

\* Every string of up to MaxText of those bytes, and a few 4-byte sequences,
\* well formed and overlong.
DecodeCalls ==
    {[fn |-> "decode_puz_string", bytes |-> b] :
        b \in UNION {[1..n -> TextBytes] : n \in 0..MaxText}
               \cup {<<240, 159, 128, 128>>, <<240, 128, 128, 128>>,
                     <<244, 143, 191, 191>>, <<244, 144, 128, 128>>,
                     <<65, 226, 130, 172, 66>>}}

\* The most cells of a grid enumerated for the two cell tests.
MaxNeedsCells == 4
\* '-', '.', 'X'
CellChars == {FREE_SQUARE, TAKEN_SQUARE, 88}

\* The grid of h rows of w cells over the flat cells.
GridOf(flat, w, h) == [r \in 1..h |-> [c \in 1..w |-> flat[(r - 1) * w + c]]]

\* Grids whose rows differ in length, the empty grid and a grid of an empty
\* row: a slice of strings need not be rectangular.
RaggedGrids ==
    {<<>>, << <<>> >>, << <<45, 45>>, <<45>> >>, << <<45>>, <<45, 45>> >>,
     << <<46>>, <<>>, <<45, 45>> >>, << <<45, 45, 45>>, <<46>>, <<45, 45>> >>}

NeedsGrids ==
    UNION {{GridOf(flat, d[1], d[2]) : flat \in [1..(d[1] * d[2]) -> CellChars]} :
           d \in Dims(MaxNeedsCells)}
    \cup RaggedGrids

\* The longest row of a grid.
LongestRow(grid) ==
    IF grid = <<>> THEN 0
    ELSE CHOOSE n \in {Len(grid[r]) : r \in 1..Len(grid)} :
             \A r \in 1..Len(grid) : Len(grid[r]) <= n

\* Every position of the grid, and those one row and one column outside it.
NeedsCalls ==
    UNION {{[fn |-> f, grid |-> g, row |-> r, col |-> c] :
              f \in {"cell_needs_across_clue", "cell_needs_down_clue"},
              r \in 0..Len(g), c \in 0..LongestRow(g)} : g \in NeedsGrids}

\* The most cells of a blank grid enumerated for process_clues.
MaxScanCells == 5

\* n clue strings, all different: "a", "b", ...
ClueTexts(n) == [i \in 1..n |-> <<96 + i>>]

\* The slots the scan of a grid fills.
GridSlots(g) == LET n == count_expected_clues(g) IN n[1] + n[2]

\* Every grid of height rows of width cells that parse_grids can return, and
\* the grid of no rows, with one clue string fewer than, as many as and one
\* more than the grid has slots.
ProcessCluesCalls ==
    UNION {{[fn |-> "process_clues", blank_grid |-> g, clue_strings |-> ClueTexts(n)] :
              n \in {m \in {GridSlots(g) - 1, GridSlots(g), GridSlots(g) + 1} : m >= 0}} :
           g \in UNION {{GridOf(flat, d[1], d[2]) :
                           flat \in [1..(d[1] * d[2]) -> CellChars]} :
                        d \in Dims(MaxScanCells)} \cup {<<>>}}

\* The most entries of an RTBL payload whose entries are enumerated.
MaxRtblEntries == 2

\* "5:AB", " 7 : C ", "", " ", "X:Y", "nc", "256:Z", "5:Q", "+9:P", ":V",
\* "07:a:b", "-1:N"
RtblEntries ==
    {<<53, 58, 65, 66>>, <<32, 55, 32, 58, 32, 67, 32>>, <<>>, <<32>>, <<88, 58, 89>>,
     <<110, 99>>, <<50, 53, 54, 58, 90>>, <<53, 58, 81>>, <<43, 57, 58, 80>>, <<58, 86>>,
     <<48, 55, 58, 97, 58, 98>>, <<45, 49, 58, 78>>}

RECURSIVE JoinEntries(_)
\* The entries with ';' between them.
JoinEntries(es) ==
    IF es = <<>> THEN <<>>
    ELSE IF Len(es) = 1 THEN es[1]
    ELSE es[1] \o <<59>> \o JoinEntries(Tail(es))

\* A 2 x 2 GRBS grid with the keys 5 and 7, and an RTBL of every run of
\* those entries.
RebusCalls ==
    {[fn |-> "parse_extensions_with_recovery",
      data |-> Section(GRBS, 4, <<0, 5, 0, 7>>)
               \o Section(RTBL, Len(JoinEntries(es)), JoinEntries(es)),
      width |-> 2, height |-> 2] :
        es \in UNION {[1..n -> RtblEntries] : n \in 0..MaxRtblEntries}}

Calls == ExtensionCalls \cup FindSectionCalls \cup GextCalls \cup DecodeCalls
         \cup NeedsCalls \cup ProcessCluesCalls \cup RebusCalls

InitCall ==
    /\ call \in Calls
    /\ ret = Pending
    /\ pc = "call"
    /\ buf_reader = NoValue
    /\ header = NoValue
    /\ grids = NoValue
    /\ strings = NoValue
    /\ extensions = NoValue
    /\ clues = NoValue
    /\ warnings = <<>>
    /\ result = Pending

\* The called function returns (or panics): ret holds what it gave.
Return(v) ==
    /\ pc = "call"
    /\ ret' = v
    /\ pc' = "returned"
    /\ UNCHANGED <<buf_reader, header, grids, strings, extensions, clues, warnings,
                   result, call>>

CallParseExtensions ==
    /\ call.fn = "parse_extensions_with_recovery"
    /\ \E r \in {parse_extensions_with_recovery(call.data, call.width, call.height)} :
          Return(r)

CallFindSection ==
    /\ call.fn = "find_section"
    /\ \E r \in {find_section(call.data, call.section_name)} : Return(r)

\* Both branches of decode_puz_string return Ok.
CallDecodePuzString ==
    /\ call.fn = "decode_puz_string"
    /\ \E r \in {Ok(decode_puz_string(call.bytes), NoValue)} : Return(r)

CallCellNeedsAcrossClue ==
    /\ call.fn = "cell_needs_across_clue"
    /\ \E r \in {Ok(cell_needs_across_clue(call.grid, call.row, call.col), NoValue)} :
          Return(r)

CallCellNeedsDownClue ==
    /\ call.fn = "cell_needs_down_clue"
    /\ \E r \in {Ok(cell_needs_down_clue(call.grid, call.row, call.col), NoValue)} :
          Return(r)

\* process_clues is entered: its locals are set and the scan is at the
\* first cell. ret holds the locals while the loops run; k counts the cells
\* scanned, so the loops are at row k \div width, column k % width.
CallProcessClues ==
    /\ pc = "call" /\ call.fn = "process_clues"
    /\ ret' = [st |-> clue_scan_init, k |-> 0]
    /\ pc' = "scan"
    /\ UNCHANGED <<buf_reader, header, grids, strings, extensions, clues, warnings,
                   result, call>>

ScanWidth == grid_width(call.blank_grid)
ScanCells == Len(call.blank_grid) * ScanWidth

\* One iteration of the inner loop; it returns Err when a string is missing.
ScanCell ==
    /\ pc = "scan" /\ ret.k < ScanCells
    /\ \E st \in {clue_step(call.blank_grid, call.clue_strings, ret.k \div ScanWidth,
                             ret.k % ScanWidth, ret.st)} :
          IF st.failed
          THEN ret' = Err(st.err) /\ pc' = "returned"
          ELSE ret' = [st |-> st, k |-> ret.k + 1] /\ pc' = "scan"
    /\ UNCHANGED <<buf_reader, header, grids, strings, extensions, clues, warnings,
                   result, call>>

\* The loops are over: the check for unused strings, and the return.
ScanEnd ==
    /\ pc = "scan" /\ ret.k >= ScanCells
    /\ ret' = IF ret.st.clue_index < Len(call.clue_strings)
              THEN Err(InvalidClues([why |-> "Too many clues provided",
                                     expected |-> ret.st.clue_index,
                                     got |-> Len(call.clue_strings)]))
              ELSE Ok([across |-> ret.st.across, down |-> ret.st.down], NoValue)
    /\ pc' = "returned"
    /\ UNCHANGED <<buf_reader, header, grids, strings, extensions, clues, warnings,
                   result, call>>

NextCall ==
    \/ CallProcessClues
    \/ ScanCell
    \/ ScanEnd
    \/ CallParseExtensions
    \/ CallFindSection
    \/ CallDecodePuzString
    \/ CallCellNeedsAcrossClue
    \/ CallCellNeedsDownClue

SpecCalls == InitCall /\ [][NextCall]_vars

(***************************************************************************)
(* The input as the file format lays it out (offsets of the table in       *)
(* header.rs and io.rs), read directly from the bytes                      *)
(***************************************************************************)
Data == buf_reader.data

FileMagic == SubSeq(Data, 3, 14)
FileWidth == Data[45]
FileHeight == Data[46]
FileNumClues == Data[47] + 256 * Data[48]
FileScrambledTag == Data[51] + 256 * Data[52]
HeaderEnd == 52
\* "ACROSS&DOWN\0"
AcrossAndDown == <<65, 67, 82, 79, 83, 83, 38, 68, 79, 87, 78, 0>>

HasMagic == Len(Data) >= 14
HasHeader == Len(Data) >= HeaderEnd
FileCells == FileWidth * FileHeight
HasGrids == HasHeader /\ Len(Data) >= HeaderEnd + 2 * FileCells
\* Cell i (1-based, row-major) of the two grids of the file.
FileSolution(i) == Data[HeaderEnd + i]
FileBlank(i) == Data[HeaderEnd + FileCells + i]

\* Which stages have returned, read off the state.
HeaderParsed == header # NoValue
GridsParsed == grids # NoValue
StringsParsed == strings # NoValue
ExtensionsParsed == extensions # NoValue
CluesProcessed == clues # NoValue
Failed(kind) == result.kind = "Err" /\ result.err.kind = kind

(***************************************************************************)
(* C1                                                                      *)
(***************************************************************************)
StageOrder == <<"magic", "header", "grids", "strings", "extensions", "clues", "validate">>
StageIndex(stage) == CHOOSE i \in 1..Len(StageOrder) : StageOrder[i] = stage
StageAfter(stage) ==
    IF StageIndex(stage) = Len(StageOrder) THEN "done" ELSE StageOrder[StageIndex(stage) + 1]

\* What the stage about to run returns in the current state.
StageOutcome(stage) ==
    CASE stage = "magic" -> validate_file_magic(buf_reader)
      [] stage = "header" -> parse_header(buf_reader)
      [] stage = "grids" -> parse_grids(buf_reader, header.width, header.height)
      [] stage = "strings" -> parse_strings(buf_reader, header.num_clues)
      [] stage = "extensions" ->
             parse_extensions_with_recovery(read_remaining_data(buf_reader).val,
                                            header.width, header.height)
      [] stage = "clues" -> process_clues(grids.blank, strings.clues)
      [] stage = "validate" ->
             validate_puzzle(puzzle_of(header, grids, strings, extensions, clues))

\* The error kinds each stage can fail with.
StageErrorKinds(stage) ==
    CASE stage = "magic" -> {"IoError", "InvalidMagic"}
      [] stage = "header" -> {"IoError", "InvalidDimensions"}
      [] stage = "grids" -> {"IoError", "InvalidGrid"}
      [] stage = "strings" -> {"IoError", "InvalidClueCount"}
      [] stage = "extensions" -> {}
      [] stage = "clues" -> {"InvalidClues"}
      [] stage = "validate" -> {"InvalidDimensions", "InvalidGrid", "InvalidClues"}

C1_Step ==
    pc # "done" =>
        IF StageOutcome(pc).ok
        THEN /\ pc' = StageAfter(pc)
             /\ IF pc' = "done"
                THEN result' = ReturnOk(puzzle_of(header, grids, strings, extensions, clues),
                                        warnings)
                ELSE result' = Pending
        ELSE /\ pc' = "done"
             /\ result' = ReturnErr(StageOutcome(pc).err)
             /\ result'.err.kind \in StageErrorKinds(pc)

C1_Returned ==
    /\ pc = "done" <=> result # Pending
    /\ result.kind = "Ok" =>
           /\ HeaderParsed /\ GridsParsed /\ StringsParsed /\ ExtensionsParsed
           /\ CluesProcessed
           /\ validate_puzzle(result.puzzle).ok

\* C1: parse_puzzle runs the stages in the order magic, header, grids,
\* strings, extensions, clues, validation; a stage that fails ends the parse
\* with exactly that stage's error, so no later stage runs and no later
\* stage's error is returned; a Puzzle with the warnings is returned only
\* after the last stage, when every stage has succeeded.
C1_FirstFailingStage == []C1_Returned /\ [][C1_Step]_vars

\* An input that fails the magic check and would also fail the header's
\* dimension check: the magic error is the one returned.
C1_Witness == pc = "done" /\ Failed("InvalidMagic") /\ HasHeader /\ FileWidth = 0

(***************************************************************************)
(* C2                                                                      *)
(***************************************************************************)
\* Some cell of the file is blocked in exactly one of the two grids.
FileBlockMismatch ==
    \E i \in 1..FileCells : (FileSolution(i) = 46) # (FileBlank(i) = 46)

\* parse_grids has run on complete grid bytes.
GridsStageRan == HeaderParsed /\ pc # "grids" /\ HasGrids

\* C2: when some cell is '.' in exactly one of solution and blank, parse_grids
\* itself fails with InvalidGrid (no Grid is produced); and every returned
\* Puzzle has '.' at exactly the same positions of grid.blank and
\* grid.solution.
C2_BlocksAgree ==
    /\ GridsStageRan /\ FileBlockMismatch =>
           pc = "done" /\ Failed("InvalidGrid") /\ ~GridsParsed
    /\ result.kind = "Ok" =>
           LET g == result.puzzle.grid IN
           /\ Len(g.blank) = Len(g.solution)
           /\ \A r \in 1..Len(g.blank) :
                  /\ Len(g.blank[r]) = Len(g.solution[r])
                  /\ \A c \in 1..Len(g.blank[r]) :
                         (g.blank[r][c] = 46) <=> (g.solution[r][c] = 46)

\* A file whose blank grid blocks a cell that the solution fills, rejected.
C2_Witness ==
    /\ GridsStageRan /\ pc = "done" /\ Failed("InvalidGrid")
    /\ \E i \in 1..FileCells : FileSolution(i) = 65 /\ FileBlank(i) = 46

(***************************************************************************)
(* C3, C4                                                                  *)
(***************************************************************************)
\* The rule of the clue deriver, on a grid g with 0-based (r, c): the cell
\* at (r, c) if there is one, else nothing.
Cell(g, r, c) ==
    IF r >= 0 /\ r < Len(g) /\ c >= 0 /\ c < Len(g[r + 1]) THEN <<g[r + 1][c + 1]>> ELSE <<>>
IsFree(g, r, c) == Cell(g, r, c) = <<45>>
IsBlocked(g, r, c) == Cell(g, r, c) = <<46>>
StartsAcross(g, r, c) ==
    IsFree(g, r, c) /\ IsFree(g, r, c + 1) /\ (c = 0 \/ IsBlocked(g, r, c - 1))
StartsDown(g, r, c) ==
    IsFree(g, r, c) /\ IsFree(g, r + 1, c) /\ (r = 0 \/ IsBlocked(g, r - 1, c))

Cells(g) == {p \in (0..(Len(g) - 1)) \X (0..(Len(g[1]) - 1)) : TRUE}
AcrossStarts(g) == {p \in Cells(g) : StartsAcross(g, p[1], p[2])}
DownStarts(g) == {p \in Cells(g) : StartsDown(g, p[1], p[2])}

\* process_clues has returned.
CluesStageRan == ExtensionsParsed /\ pc \in {"validate", "done"}

\* C3: whenever process_clues succeeds, the across map has as many entries as
\* there are cells that start an across entry and the down map as many as
\* there are cells that start a down entry, which are also the counts that
\* count_expected_clues recomputes, so validate_clue_consistency passes.
C3_CountsAgree ==
    CluesProcessed =>
        /\ Cardinality(DOMAIN clues.across) = Cardinality(AcrossStarts(grids.blank))
        /\ Cardinality(DOMAIN clues.down) = Cardinality(DownStarts(grids.blank))
        /\ count_expected_clues(grids.blank)
               = <<Cardinality(DOMAIN clues.across), Cardinality(DOMAIN clues.down)>>
        /\ validate_clue_consistency(
               puzzle_of(header, grids, strings, extensions, clues)).ok

\* A grid with several entries in both directions, one cell starting both.
C3_Witness ==
    /\ CluesProcessed
    /\ Cardinality(DOMAIN clues.across) >= 2 /\ Cardinality(DOMAIN clues.down) >= 2
    /\ (DOMAIN clues.across) \cap (DOMAIN clues.down) # {}
    /\ (DOMAIN clues.across) \ (DOMAIN clues.down) # {}

\* p comes before q in the scan (rows top to bottom, columns left to right).
Before(p, q) == p[1] < q[1] \/ (p[1] = q[1] /\ p[2] < q[2])
\* The clue number of starting cell p, and the number of slots before it.
NumberOf(g, p) ==
    1 + Cardinality({q \in AcrossStarts(g) \cup DownStarts(g) : Before(q, p)})
SlotsBefore(g, p) ==
    Cardinality({q \in AcrossStarts(g) : Before(q, p)})
    + Cardinality({q \in DownStarts(g) : Before(q, p)})
\* The slots in the order they are filled: <<number, direction>> of slot k.
SlotSet(g) ==
    {<<SlotsBefore(g, p) + 1, NumberOf(g, p), "across">> : p \in AcrossStarts(g)}
    \cup {<<SlotsBefore(g, p) + (IF p \in AcrossStarts(g) THEN 2 ELSE 1),
            NumberOf(g, p), "down">> : p \in DownStarts(g)}
SlotAt(g, k) == CHOOSE s \in SlotSet(g) : s[1] = k
RequiredSlots(g) == Cardinality(AcrossStarts(g)) + Cardinality(DownStarts(g))

\* C4: process_clues fails (with InvalidClues) exactly when the number of
\* clue strings differs from the number of slots; with too few strings the
\* error names the first slot left without a string, with too many it is
\* raised after the scan, with every slot filled.
C4_ClueCountMismatch ==
    CluesStageRan =>
        LET need == RequiredSlots(grids.blank)
            have == Len(strings.clues) IN
        /\ CluesProcessed <=> have = need
        /\ ~CluesProcessed => pc = "done" /\ Failed("InvalidClues")
        /\ have < need =>
               result.err.reason = [why |-> "Not enough clues provided",
                                    dir |-> SlotAt(grids.blank, have + 1)[3],
                                    position |-> SlotAt(grids.blank, have + 1)[2]]
        /\ have > need =>
               result.err.reason = [why |-> "Too many clues provided",
                                    expected |-> need, got |-> have]

\* Five clue strings for the open 3 x 3 grid, which needs six.
C4_Witness ==
    /\ CluesStageRan /\ Failed("InvalidClues")
    /\ Len(strings.clues) = 5 /\ RequiredSlots(grids.blank) = 6

(***************************************************************************)
(* C5                                                                      *)
(***************************************************************************)
\* C5: whatever the first 2 bytes are, the magic check passes iff bytes 3..14
\* are "ACROSS&DOWN\0"; any other 12 bytes end the parse with InvalidMagic
\* carrying those 12 bytes, before any header field is looked at.
C5_MagicChecked ==
    pc # "magic" /\ HasMagic =>
        IF FileMagic = AcrossAndDown
        THEN ~Failed("InvalidMagic") /\ buf_reader.pos >= 14
        ELSE pc = "done" /\ result = ReturnErr(InvalidMagic(FileMagic)) /\ ~HeaderParsed

\* A wrong magic in a file whose width is 0 and whose first bytes are not 0.
C5_Witness ==
    /\ pc = "done" /\ Failed("InvalidMagic") /\ HasHeader /\ FileWidth = 0
    /\ Data[1] # 0 /\ FileMagic[12] # 0 /\ SubSeq(FileMagic, 1, 11) = SubSeq(AcrossAndDown, 1, 11)

(***************************************************************************)
(* C6                                                                      *)
(***************************************************************************)
\* parse_header has run on a complete header.
HeaderStageRan == pc \notin {"magic", "header"} /\ HasHeader /\ FileMagic = AcrossAndDown

\* C6: on a complete header, parse_header fails iff the width byte or the
\* height byte is 0, and then with InvalidDimensions carrying the two bytes;
\* every other width and height up to 255 is accepted as read; so a returned
\* Puzzle has info.width > 0 and info.height > 0.
C6_Dimensions ==
    /\ HeaderStageRan =>
           IF FileWidth = 0 \/ FileHeight = 0
           THEN /\ pc = "done" /\ ~HeaderParsed
                /\ result = ReturnErr(InvalidDimensions(FileWidth, FileHeight))
           ELSE /\ HeaderParsed /\ ~Failed("InvalidDimensions")
                /\ header.width = FileWidth /\ header.height = FileHeight
    /\ result.kind = "Ok" =>
           /\ result.puzzle.info.width > 0 /\ result.puzzle.info.height > 0
           /\ result.puzzle.info.width = FileWidth
           /\ result.puzzle.info.height = FileHeight

\* Width 255 with height 0: rejected, the error carrying both.
C6_Witness ==
    /\ HeaderStageRan /\ FileWidth = 255 /\ FileHeight = 0
    /\ result = ReturnErr(InvalidDimensions(255, 0))

\* The largest dimensions are accepted.
C6_WitnessAccepted ==
    HeaderStageRan /\ HeaderParsed /\ header.width = 255 /\ header.height = 255

(***************************************************************************)
(* C7                                                                      *)
(***************************************************************************)
\* The stream ends inside the magic, the header or one of the two grids.
EndsEarly == ~HasMagic \/ ~HasHeader \/ ~HasGrids

\* C7 as claimed: a stream that ends inside the magic, the header or a grid
\* always fails with IoError.
C7_AlwaysIoError == pc = "done" /\ EndsEarly => Failed("IoError")

\* C7 as amended: such a stream never yields a Puzzle and never a grid,
\* dimension or clue error; it fails with IoError, except that a complete but
\* wrong magic is reported as InvalidMagic before the missing bytes are
\* reached.
C7_TruncatedFails ==
    EndsEarly =>
        /\ result.kind # "Ok"
        /\ ~GridsParsed
        /\ pc = "done" =>
               IF HasMagic /\ FileMagic # AcrossAndDown
               THEN result = ReturnErr(InvalidMagic(FileMagic))
               ELSE result = ReturnErr(IoError)

\* A stream with a good header that ends inside the blank grid.
C7_Witness ==
    /\ pc = "done" /\ HasHeader /\ ~HasGrids /\ FileMagic = AcrossAndDown
    /\ Len(Data) > HeaderEnd + FileCells /\ Failed("IoError")

(***************************************************************************)
(* C8                                                                      *)
(***************************************************************************)
ScrambledWarnings(w) == {i \in 1..Len(w) : w[i].kind = "ScrambledPuzzle"}

\* C8: in a successful parse, info.is_scrambled holds iff the two bytes of
\* the scrambled tag are not both 0, a ScrambledPuzzle warning is among the
\* warnings iff is_scrambled holds, and the warning carries info.version.
C8_Scrambled ==
    result.kind = "Ok" =>
        /\ result.puzzle.info.is_scrambled <=> FileScrambledTag # 0
        /\ ScrambledWarnings(result.warnings) # {} <=> result.puzzle.info.is_scrambled
        /\ \A i \in ScrambledWarnings(result.warnings) :
               result.warnings[i].version = result.puzzle.info.version

\* A tag whose low byte is 0, with a version that is no valid UTF-8.
C8_Witness ==
    /\ result.kind = "Ok" /\ FileScrambledTag = 256
    /\ result.puzzle.info.is_scrambled
    /\ result.puzzle.info.version = <<49, 46, 8220>>
    /\ ScrambledWarnings(result.warnings) # {}

(***************************************************************************)
(* C9, C10                                                                 *)
(***************************************************************************)
\* The bytes after the strings: what follows the NUL that ends the notes,
\* the (4 + num_clues)-th NUL after the grids.
NulsAfterGrids == {i \in (HeaderEnd + 2 * FileCells + 1)..Len(Data) : Data[i] = 0}
StringsEnd ==
    CHOOSE i \in NulsAfterGrids :
        Cardinality({j \in NulsAfterGrids : j <= i}) = 4 + FileNumClues
FileTail == SubSeq(Data, StringsEnd + 1, Len(Data))

\* The first place (1-based) the tag occurs in t, 0 if nowhere.
TagAt(t, tag) ==
    LET at == {i \in 1..(Len(t) - 3) : SubSeq(t, i, i + 3) = tag} IN
    IF at = {} THEN 0 ELSE CHOOSE i \in at : \A j \in at : i <= j
\* The section is found: tag, 2 length bytes, 2 checksum bytes and the
\* declared number of payload bytes all lie inside t.
Framed(t, tag) ==
    /\ TagAt(t, tag) # 0
    /\ TagAt(t, tag) + 5 <= Len(t)
    /\ TagAt(t, tag) + 7 + t[TagAt(t, tag) + 4] + 256 * t[TagAt(t, tag) + 5] <= Len(t)
PayloadLen(t, tag) == t[TagAt(t, tag) + 4] + 256 * t[TagAt(t, tag) + 5]

SkippedWarnings(w, sections) ==
    {i \in 1..Len(w) : w[i].kind = "SkippedExtension" /\ w[i].section \in sections}

\* C9: a GRBS section of exactly width*height bytes without an RTBL section
\* (no tag, or a payload that runs past the end) leaves rebus = None and
\* records exactly one SkippedExtension warning about the rebus; the stage
\* does not fail, and the parse succeeds when the rest of the file is good.
C9_GrbsWithoutRtbl ==
    ExtensionsParsed /\ Framed(FileTail, GRBS) /\ PayloadLen(FileTail, GRBS) = FileCells
    /\ ~Framed(FileTail, RTBL) =>
        /\ extensions.rebus = None
        /\ Cardinality(SkippedWarnings(warnings, {"GRBS", "RTBL", "GRBS/RTBL"})) = 1
        /\ SkippedWarnings(warnings, {"GRBS"}) # {}
        /\ pc = "done" /\ CluesProcessed /\ validate_puzzle(
               puzzle_of(header, grids, strings, extensions, clues)).ok =>
               result.kind = "Ok" /\ result.puzzle.extensions.rebus = None
                                  /\ result.warnings = warnings

\* A well-sized GRBS, and an RTBL tag whose payload runs past the end.
C9_Witness ==
    /\ ExtensionsParsed /\ pc = "done" /\ result.kind = "Ok"
    /\ Framed(FileTail, GRBS) /\ PayloadLen(FileTail, GRBS) = FileCells
    /\ ~Framed(FileTail, RTBL) /\ TagAt(FileTail, RTBL) # 0
    /\ extensions.rebus = None

\* C10: a GRBS section whose payload is not width*height bytes gives exactly
\* one SkippedExtension warning, naming GRBS, and no rebus, even with a good
\* RTBL; a GEXT section whose payload is not width*height bytes gives exactly
\* one SkippedExtension warning, naming GEXT, and neither circles nor given.
C10_WrongSize ==
    ExtensionsParsed =>
        /\ Framed(FileTail, GRBS) /\ PayloadLen(FileTail, GRBS) # FileCells =>
               /\ extensions.rebus = None
               /\ Cardinality(SkippedWarnings(warnings, {"GRBS"})) = 1
               /\ SkippedWarnings(warnings, {"RTBL", "GRBS/RTBL"}) = {}
        /\ Framed(FileTail, GEXT) /\ PayloadLen(FileTail, GEXT) # FileCells =>
               /\ extensions.circles = None /\ extensions.given = None
               /\ Cardinality(SkippedWarnings(warnings, {"GEXT"})) = 1

\* Both sections wrongly sized, GRBS too long, next to a good RTBL.
C10_Witness ==
    /\ ExtensionsParsed /\ pc = "done" /\ result.kind = "Ok"
    /\ Framed(FileTail, GRBS) /\ PayloadLen(FileTail, GRBS) > FileCells
    /\ Framed(FileTail, RTBL)
    /\ Framed(FileTail, GEXT) /\ PayloadLen(FileTail, GEXT) # FileCells
    /\ Len(result.warnings) = 2

(***************************************************************************)
(* C11                                                                     *)
(***************************************************************************)
Returned(fn) == pc = "returned" /\ call.fn = fn

C11_OkFromWidthOne ==
    Returned("parse_extensions_with_recovery") /\ call.width >= 1 =>
        /\ ret.ok
        /\ \A i \in 1..Len(ret.val.warnings) :
               ret.val.warnings[i].kind = "SkippedExtension"

(***************************************************************************)
(* C12                                                                     *)
(***************************************************************************)
\* The first place (1-based) the tag occurs in t, 0 if nowhere.
FirstTag(t, tag) ==
    LET at == {i \in 1..(Len(t) - 3) : \A k \in 0..3 : t[i + k] = tag[k + 1]} IN
    IF at = {} THEN 0 ELSE CHOOSE i \in at : \A j \in at : i <= j

\* The length the two bytes after the tag at place p declare.
Declared(t, p) == t[p + 4] + 256 * t[p + 5]

\* C12: find_section gives None when the tag does not occur, when fewer than
\* 2 bytes follow it, or when tag position + 8 + declared length exceeds the
\* buffer; otherwise exactly the declared number of bytes that start 8 bytes
\* after the first byte of the tag, whatever the checksum bytes are.
C12_FindSection ==
    Returned("find_section") =>
        LET t == call.data
            p == FirstTag(t, call.section_name) IN
        IF p = 0 \/ Len(t) < p + 5 THEN ret = None
        ELSE IF (p - 1) + 8 + Declared(t, p) > Len(t) THEN ret = None
        ELSE /\ ret.kind = "Some"
             /\ Len(ret.val) = Declared(t, p)
             /\ \A k \in 1..Declared(t, p) : ret.val[k] = t[p + 7 + k]

\* The buffer is one byte short of the declared payload: absent.
C12_Witness ==
    /\ Returned("find_section") /\ ret = None
    /\ LET p == FirstTag(call.data, call.section_name) IN
       /\ p # 0 /\ Len(call.data) >= p + 5
       /\ (p - 1) + 8 + Declared(call.data, p) = Len(call.data) + 1
       /\ Declared(call.data, p) >= 256

\* A payload found behind a checksum that is not 0.
C12_WitnessFound ==
    /\ Returned("find_section") /\ ret = Some(<<5, 6>>)
    /\ call.section_name = GEXT

(***************************************************************************)
(* C13                                                                     *)
(***************************************************************************)
\* Byte r*width+c (r, c from 1 here) of the payload of the section at the
\* first occurrence of the tag in t.
PayloadByte(t, tag, width, r, c) == t[TagAt(t, tag) + 7 + (r - 1) * width + c]
Bit80(b) == b >= 128
Bit40(b) == (b % 128) >= 64

\* The boolean grid g is height rows of width cells and holds, cell by
\* cell, whether the bit of the payload byte is set.
GridOfBit(g, t, width, height, bit) ==
    /\ g.kind = "Some" /\ Len(g.val) = height
    /\ \A r \in 1..height :
          /\ Len(g.val[r]) = width
          /\ \A c \in 1..width :
                g.val[r][c] <=> (IF bit = 128 THEN Bit80(PayloadByte(t, GEXT, width, r, c))
                                 ELSE Bit40(PayloadByte(t, GEXT, width, r, c)))

\* C13: for a GEXT payload of exactly width*height bytes, circles is Some
\* iff some byte has bit 0x80 and given is Some iff some byte has bit 0x40;
\* a Some grid has height rows of width cells, circles[r][c] telling bit
\* 0x80 and given[r][c] bit 0x40 of byte r*width+c, each whatever the other
\* bits of the byte are.
C13_GextBits ==
    Returned("parse_extensions_with_recovery") /\ ret.ok
    /\ Framed(call.data, GEXT) /\ PayloadLen(call.data, GEXT) = call.width * call.height =>
        LET t == call.data
            w == call.width
            h == call.height
            bytes == {PayloadByte(t, GEXT, w, r, c) : r \in 1..h, c \in 1..w}
            ext == ret.val.extensions IN
        /\ IF \E b \in bytes : Bit80(b) THEN GridOfBit(ext.circles, t, w, h, 128)
           ELSE ext.circles = None
        /\ IF \E b \in bytes : Bit40(b) THEN GridOfBit(ext.given, t, w, h, 64)
           ELSE ext.given = None

\* One cell circled only (low bits set too), the other given only.
C13_Witness ==
    /\ Returned("parse_extensions_with_recovery") /\ ret.ok
    /\ call.data = Section(GEXT, 2, <<191, 127>>) /\ call.width = 2 /\ call.height = 1
    /\ ret.val.extensions.circles = Some(<<<<TRUE, FALSE>>>>)
    /\ ret.val.extensions.given = Some(<<<<FALSE, TRUE>>>>)

(***************************************************************************)
(* C14                                                                     *)
(***************************************************************************)
\* ASCII alphanumeric or one of space, '-', apostrophe, '&', '.', '!', '?'.
Allowed(c) ==
    \/ (c >= 48 /\ c <= 57) \/ (c >= 65 /\ c <= 90) \/ (c >= 97 /\ c <= 122)
    \/ c \in {32, 45, 39, 38, 46, 33, 63}

\* The file's solution has a cell that is not blocked and not allowed.
FileBadSolutionCell ==
    /\ HasGrids /\ FileMagic = AcrossAndDown /\ FileWidth >= 1 /\ FileHeight >= 1
    /\ \E i \in 1..FileCells : FileSolution(i) # TAKEN_SQUARE /\ ~Allowed(FileSolution(i))

\* C14: a returned Puzzle has only allowed characters in the cells of
\* grid.solution that are not blocked; an input whose solution has a
\* non-blocked cell outside the set never yields a Puzzle, and when
\* validate_puzzle runs on it, it reports InvalidGrid.
C14_AllowedChars ==
    /\ result.kind = "Ok" =>
           \A r \in 1..Len(result.puzzle.grid.solution) :
               \A c \in 1..Len(result.puzzle.grid.solution[r]) :
                   result.puzzle.grid.blank[r][c] # TAKEN_SQUARE =>
                       Allowed(result.puzzle.grid.solution[r][c])
    /\ FileBadSolutionCell =>
           /\ result.kind # "Ok"
           /\ pc = "done" /\ CluesProcessed => Failed("InvalidGrid")

\* '#' in a free cell gets through every stage up to validate_puzzle, which
\* rejects it.
C14_Witness ==
    /\ FileBadSolutionCell /\ pc = "done" /\ CluesProcessed /\ Failed("InvalidGrid")
    /\ \E i \in 1..FileCells : FileSolution(i) = 35 /\ FileBlank(i) = FREE_SQUARE

(***************************************************************************)
(* C15                                                                     *)
(***************************************************************************)
\* The run of the state machine and parse_puzzle as a function agree.
ParseAgrees == pc = "done" => result = parse_puzzle(Data)


\* The tail t without the section at the first occurrence of the tag.
Without(t, tag) ==
    SubSeq(t, 1, TagAt(t, tag) - 1)
    \o SubSeq(t, TagAt(t, tag) + 8 + PayloadLen(t, tag), Len(t))

\* The section of the tag is found in t and is one the parser skips with a
\* warning: wrongly sized, or a GRBS of the right size without an RTBL.
Skipped(t, tag) ==
    /\ Framed(t, tag)
    /\ \/ tag \in {GRBS, GEXT} /\ PayloadLen(t, tag) # FileCells
       \/ tag = GRBS /\ PayloadLen(t, tag) = FileCells /\ ~Framed(t, RTBL)

\* The input that differs from this one only in not holding that section.
OtherFile(tag) == SubSeq(Data, 1, StringsEnd) \o Without(FileTail, tag)

\* The payload found for a tag in t: first occurrence, framed within t.
FoundPayload(t, tag) ==
    IF Framed(t, tag)
    THEN Some(SubSeq(t, TagAt(t, tag) + 8, TagAt(t, tag) + 7 + PayloadLen(t, tag)))
    ELSE None

TagName(tag) == IF tag = GRBS THEN "GRBS" ELSE IF tag = RTBL THEN "RTBL" ELSE "GEXT"

\* The warnings w without the SkippedExtension warnings naming the tag.
WithoutWarning(w, tag) ==
    SelectSeq(w, LAMBDA x : ~(x.kind = "SkippedExtension" /\ x.section = TagName(tag)))

\* C15 as claimed: for an input that parses and holds a skipped section,
\* the input without that section (and with no other occurrence of its
\* tag) parses too, to an equal Puzzle.
C15_SkippedSectionInert ==
    pc = "done" /\ result.kind = "Ok" =>
        \A tag \in {GRBS, GEXT} :
            Skipped(FileTail, tag) /\ TagAt(Without(FileTail, tag), tag) = 0 =>
                \E o \in {parse_puzzle(OtherFile(tag))} :
                    o.kind = "Ok" /\ o.puzzle = result.puzzle

\* Each of the other two tags is found with the same payload in both
\* inputs, or in neither.
OthersAlike(tag) ==
    \A other \in {GRBS, RTBL, GEXT} \ {tag} :
        FoundPayload(FileTail, other) = FoundPayload(Without(FileTail, tag), other)

\* C15 as amended: the same, for two inputs in which the other two tags are
\* found alike (no tag lies in or across the skipped section's bytes and no
\* other section's payload covers them); the warnings then differ by exactly
\* the warning of the skipped section.
C15_SkippedSectionInertFramed ==
    pc = "done" /\ result.kind = "Ok" =>
        \A tag \in {GRBS, GEXT} :
            Skipped(FileTail, tag) /\ TagAt(Without(FileTail, tag), tag) = 0
            /\ OthersAlike(tag) =>
                \E o \in {parse_puzzle(OtherFile(tag))} :
                    /\ o.kind = "Ok" /\ o.puzzle = result.puzzle
                    /\ o.warnings = WithoutWarning(result.warnings, tag)
                    /\ Len(o.warnings) = Len(result.warnings) - 1

\* A wrongly sized GEXT next to a rebus that is parsed: the Puzzle has the
\* rebus, and the input without the GEXT gives the same Puzzle, no warning.
C15_Witness ==
    /\ pc = "done" /\ result.kind = "Ok"
    /\ Skipped(FileTail, GEXT) /\ TagAt(Without(FileTail, GEXT), GEXT) = 0
    /\ OthersAlike(GEXT)
    /\ result.puzzle.extensions.rebus # None
    /\ Len(result.warnings) = 1
    /\ parse_puzzle(OtherFile(GEXT)) = ReturnOk(result.puzzle, <<>>)

(***************************************************************************)
(* C17                                                                     *)
(***************************************************************************)
InRange(b, lo, hi) == b >= lo /\ b <= hi

\* The well-formed UTF-8 byte sequences (Unicode, table 3-7).
WellFormed(b) ==
    \/ Len(b) = 1 /\ b[1] <= 127
    \/ Len(b) = 2 /\ InRange(b[1], 194, 223) /\ InRange(b[2], 128, 191)
    \/ /\ Len(b) = 3 /\ InRange(b[3], 128, 191)
       /\ \/ b[1] = 224 /\ InRange(b[2], 160, 191)
          \/ InRange(b[1], 225, 236) /\ InRange(b[2], 128, 191)
          \/ b[1] = 237 /\ InRange(b[2], 128, 159)
          \/ InRange(b[1], 238, 239) /\ InRange(b[2], 128, 191)
    \/ /\ Len(b) = 4 /\ InRange(b[3], 128, 191) /\ InRange(b[4], 128, 191)
       /\ \/ b[1] = 240 /\ InRange(b[2], 144, 191)
          \/ InRange(b[1], 241, 243) /\ InRange(b[2], 128, 191)
          \/ b[1] = 244 /\ InRange(b[2], 128, 143)

RECURSIVE IsUtf8(_)
\* The bytes are a run of well-formed sequences.
IsUtf8(b) ==
    \/ b = <<>>
    \/ \E k \in 1..Min(4, Len(b)) :
          WellFormed(SubSeq(b, 1, k)) /\ IsUtf8(SubSeq(b, k + 1, Len(b)))

\* The UTF-8 bytes of a code point.
Encode(c) ==
    IF c < 128 THEN <<c>>
    ELSE IF c < 2048 THEN <<192 + (c \div 64), 128 + (c % 64)>>
    ELSE IF c < 65536
    THEN <<224 + (c \div 4096), 128 + ((c \div 64) % 64), 128 + (c % 64)>>
    ELSE <<240 + (c \div 262144), 128 + ((c \div 4096) % 64),
           128 + ((c \div 64) % 64), 128 + (c % 64)>>

RECURSIVE EncodeAll(_)
EncodeAll(s) == IF s = <<>> THEN <<>> ELSE Encode(Head(s)) \o EncodeAll(Tail(s))

\* Windows-1252 for the bytes 128..159; the five bytes it leaves unassigned
\* keep their value.
Windows1252(b) ==
    CASE b = 128 -> 8364 [] b = 130 -> 8218 [] b = 131 -> 402 [] b = 132 -> 8222
      [] b = 133 -> 8230 [] b = 134 -> 8224 [] b = 135 -> 8225 [] b = 136 -> 710
      [] b = 137 -> 8240 [] b = 138 -> 352 [] b = 139 -> 8249 [] b = 140 -> 338
      [] b = 142 -> 381 [] b = 145 -> 8216 [] b = 146 -> 8217 [] b = 147 -> 8220
      [] b = 148 -> 8221 [] b = 149 -> 8226 [] b = 150 -> 8211 [] b = 151 -> 8212
      [] b = 152 -> 732 [] b = 153 -> 8482 [] b = 154 -> 353 [] b = 155 -> 8250
      [] b = 156 -> 339 [] b = 158 -> 382 [] b = 159 -> 376
      [] OTHER -> b

\* C17: decode_puz_string returns Ok for every byte sequence; valid UTF-8
\* comes back as the same text (it encodes to the input bytes again); any
\* other input gives one character per byte, bytes 0-127 and 160-255 as the
\* code point of the same value and bytes 128-159 through the table.
C17_DecodeTotal ==
    Returned("decode_puz_string") =>
        /\ ret.ok
        /\ IF IsUtf8(call.bytes) THEN EncodeAll(ret.val) = call.bytes
           ELSE /\ Len(ret.val) = Len(call.bytes)
                /\ \A i \in 1..Len(call.bytes) :
                      ret.val[i] = IF InRange(call.bytes[i], 128, 159)
                                   THEN Windows1252(call.bytes[i])
                                   ELSE call.bytes[i]

\* A letter, a byte of the table and a byte above it, not valid UTF-8.
C17_Witness ==
    /\ Returned("decode_puz_string") /\ call.bytes = <<65, 147, 160>>
    /\ ret = Ok(<<65, 8220, 160>>, NoValue)

\* Valid UTF-8 of three bytes: one character.
C17_WitnessUtf8 ==
    /\ Returned("decode_puz_string") /\ call.bytes = <<226, 130, 172>>
    /\ ret = Ok(<<8364>>, NoValue)

(***************************************************************************)
(* C16                                                                     *)
(***************************************************************************)
\* The 4 bytes of the version field (offset 24).
FileVersion == SubSeq(Data, 25, 28)

EncodingWarnings(w) == {i \in 1..Len(w) : w[i].kind = "EncodingIssue"}

\* C16: a successful parse of a file whose version field is not valid UTF-8
\* (and so was decoded with the code-page fallback) returns a diagnostic
\* that records the fallback.
C16_FallbackRecorded ==
    (result.kind = "Ok" /\ ~IsUtf8(FileVersion)) =>
        EncodingWarnings(result.warnings) # {}

\* What the code does instead: the parse goes on to a successful result with
\* the version decoded through the table, and no warning of that kind is
\* ever among the diagnostics.
C16_FallbackSilent ==
    /\ EncodingWarnings(warnings) = {}
    /\ result.kind = "Ok" => EncodingWarnings(result.warnings) = {}
    /\ (result.kind = "Ok" /\ ~IsUtf8(FileVersion)) =>
           /\ Len(result.puzzle.info.version) <= 4
           /\ \A i \in 1..Len(result.puzzle.info.version) :
                  result.puzzle.info.version[i] =
                      IF InRange(FileVersion[i], 128, 159)
                      THEN Windows1252(FileVersion[i]) ELSE FileVersion[i]

(***************************************************************************)
(* C18                                                                     *)
(***************************************************************************)
\* grid has height rows of width cells, and cell (r, c) is byte r*width + c
\* of the width*height bytes of the file that start after offset first.
RowMajor(grid, first) ==
    /\ Len(grid) = FileHeight
    /\ \A r \in 0..(FileHeight - 1) :
          /\ Len(grid[r + 1]) = FileWidth
          /\ \A c \in 0..(FileWidth - 1) :
                grid[r + 1][c + 1] = Data[first + r * FileWidth + c + 1]

\* C18: when parse_grids has succeeded, the solution is the first
\* width*height bytes after the header and the blank grid the next
\* width*height bytes, both row-major with height rows of width cells, and
\* the next stage starts reading 2*width*height bytes after the header.
C18_RowMajor ==
    GridsParsed =>
        /\ RowMajor(grids.solution, HeaderEnd)
        /\ RowMajor(grids.blank, HeaderEnd + FileCells)
        /\ pc = "strings" => buf_reader.pos = HeaderEnd + 2 * FileCells

\* "ABC.DEFGH" gives the rows "ABC", ".DE", "FGH".
C18_Witness ==
    /\ pc = "strings" /\ Data = ExampleFile
    /\ grids.solution = <<<<65, 66, 67>>, <<46, 68, 69>>, <<70, 71, 72>>>>
    /\ grids.blank = <<<<45, 45, 45>>, <<46, 45, 45>>, <<45, 45, 45>>>>
    /\ buf_reader.pos = 70

(***************************************************************************)
(* C19                                                                     *)
(***************************************************************************)
\* C19: for a file whose solution has a cell that is not blocked and not an
\* allowed character, parse_grids returns no grids and the parse fails with
\* InvalidGrid without going on to the strings, the extensions or the clues.
C19_GridReaderRejects ==
    (FileBadSolutionCell /\ pc \notin {"magic", "header", "grids"}) =>
        /\ ~GridsParsed
        /\ pc = "done" /\ Failed("InvalidGrid")

\* What the code does instead: when such a file has equal block layouts in
\* rows of the right length, parse_grids returns its grids and the strings
\* are read next; the same file cut off after the grids fails with IoError.
C19_GridReaderAccepts ==
    /\ (FileBadSolutionCell /\ pc = "strings"
        /\ \A i \in 1..FileCells :
              /\ FileSolution(i) < 128 /\ FileBlank(i) < 128
              /\ (FileSolution(i) = TAKEN_SQUARE) = (FileBlank(i) = TAKEN_SQUARE))
       => GridsParsed
    /\ parse_puzzle(FileHead(0, GoodMagic, GoodVersion, 1, 1, 2, 0) \o <<35, 45>>).err.kind
         = "IoError"

(***************************************************************************)
(* C20                                                                     *)
(***************************************************************************)
\* parse_strings has run: the grids were read and the parse went past it.
StringsStageRan == GridsParsed /\ pc \notin {"magic", "header", "grids", "strings"}

StringsStart == HeaderEnd + 2 * FileCells
\* The place of the k-th NUL after the grids.
NulAt(k) ==
    CHOOSE i \in NulsAfterGrids : Cardinality({j \in NulsAfterGrids : j <= i}) = k
\* The bytes of the k-th NUL-terminated string after the grids.
Field(k) ==
    SubSeq(Data, (IF k = 1 THEN StringsStart ELSE NulAt(k - 1)) + 1, NulAt(k) - 1)
\* How many strings after the grids are NUL-terminated.
FieldsComplete == Cardinality(NulsAfterGrids)

\* C20: with n complete strings after the grids, parse_strings fails with
\* IoError when n < 3 (the stream ends inside title, author or copyright),
\* with InvalidClueCount{expected = num_clues, found = n - 3} when the
\* stream ends before num_clues clues are complete, and with IoError when
\* only the notes are incomplete; otherwise title, author, copyright, the
\* num_clues clues and the notes are the strings of the file in that order.
C20_StringsInOrder ==
    StringsStageRan =>
        IF FieldsComplete < 3 \/ FieldsComplete = 3 + FileNumClues
        THEN ~StringsParsed /\ Failed("IoError")
        ELSE IF FieldsComplete < 3 + FileNumClues
        THEN /\ ~StringsParsed
             /\ result = [kind |-> "Err",
                          err |-> InvalidClueCount(FileNumClues, FieldsComplete - 3)]
        ELSE /\ StringsParsed
             /\ strings.title = decode_puz_string(Field(1))
             /\ strings.author = decode_puz_string(Field(2))
             /\ strings.copyright = decode_puz_string(Field(3))
             /\ Len(strings.clues) = FileNumClues
             /\ \A i \in 1..FileNumClues :
                    strings.clues[i] = decode_puz_string(Field(3 + i))
             /\ strings.notes = decode_puz_string(Field(4 + FileNumClues))

\* The stream ends inside the third of four clues.
C20_Witness ==
    /\ StringsStageRan /\ FileNumClues = 4 /\ FieldsComplete = 5
    /\ Data[Len(Data)] # 0
    /\ result = [kind |-> "Err", err |-> InvalidClueCount(4, 2)]

\* The stream ends inside the notes.
C20_WitnessNotes ==
    /\ StringsStageRan /\ FileNumClues = 4 /\ FieldsComplete = 7
    /\ Data[Len(Data)] # 0 /\ Failed("IoError")

\* All strings are read.
C20_WitnessRead ==
    /\ StringsStageRan /\ pc = "extensions" /\ FileNumClues = 4
    /\ strings.title = <<84>> /\ strings.author = <<>> /\ strings.copyright = <<67>>
    /\ strings.clues = <<<<97>>, <<98>>, <<99>>, <<100>>>> /\ strings.notes = <<78>>

(***************************************************************************)
(* C21                                                                     *)
(***************************************************************************)
\* The grid has a cell at (r, c), 0-based.
CellExists(g, r, c) == r >= 0 /\ r < Len(g) /\ c >= 0 /\ c < Len(g[r + 1])
\* The grid has a cell at (r, c) and it holds ch.
CellIs(g, r, c, ch) == CellExists(g, r, c) /\ g[r + 1][c + 1] = ch

\* C21: cell_needs_across_clue is true iff the cell is '-', the cell to its
\* right exists and is '-', and the cell is in column 0 or the cell to its
\* left is '.'; it is false for a blocked cell, for a free cell with no free
\* cell to its right, and for a cell whose left neighbour is free.
C21_AcrossStart ==
    Returned("cell_needs_across_clue") =>
        LET g == call.grid  r == call.row  c == call.col IN
        /\ ret.val <=> /\ CellIs(g, r, c, FREE_SQUARE)
                       /\ CellIs(g, r, c + 1, FREE_SQUARE)
                       /\ (c = 0 \/ CellIs(g, r, c - 1, TAKEN_SQUARE))
        /\ CellIs(g, r, c, TAKEN_SQUARE) => ~ret.val
        /\ ~CellIs(g, r, c + 1, FREE_SQUARE) => ~ret.val
        /\ CellIs(g, r, c - 1, FREE_SQUARE) => ~ret.val

\* "-.--": the third cell starts an entry after a blocked cell.
C21_Witness ==
    /\ Returned("cell_needs_across_clue")
    /\ call.grid = << <<45, 46, 45, 45>> >> /\ call.row = 0 /\ call.col = 2
    /\ ret.val

\* "X--": the second cell follows a cell that is neither free nor blocked.
C21_WitnessOther ==
    /\ Returned("cell_needs_across_clue")
    /\ call.grid = << <<88, 45, 45>> >> /\ call.row = 0 /\ call.col = 1
    /\ ~ret.val

(***************************************************************************)
(* C22                                                                     *)
(***************************************************************************)
\* C22: cell_needs_down_clue is true iff the cell is '-', the cell below it
\* exists and is '-', and the cell is in row 0 or the cell above it is '.';
\* it is false everywhere in a grid of one row.
C22_DownStart ==
    Returned("cell_needs_down_clue") =>
        LET g == call.grid  r == call.row  c == call.col IN
        /\ ret.val <=> /\ CellIs(g, r, c, FREE_SQUARE)
                       /\ CellIs(g, r + 1, c, FREE_SQUARE)
                       /\ (r = 0 \/ CellIs(g, r - 1, c, TAKEN_SQUARE))
        /\ Len(g) = 1 => ~ret.val

\* A column ".", "-", "-": the second cell starts an entry below a blocked
\* cell.
C22_Witness ==
    /\ Returned("cell_needs_down_clue")
    /\ call.grid = << <<46>>, <<45>>, <<45>> >> /\ call.row = 1 /\ call.col = 0
    /\ ret.val

\* One row of free cells: no cell starts a down entry.
C22_WitnessOneRow ==
    /\ Returned("cell_needs_down_clue")
    /\ call.grid = << <<45, 45, 45>> >> /\ call.row = 0 /\ call.col = 1
    /\ ~ret.val

(***************************************************************************)
(* process_clues, cell by cell                                             *)
(***************************************************************************)
\* The scan taken in steps and process_clues as a function agree.
ScanAgrees ==
    Returned("process_clues") => ret = process_clues(call.blank_grid, call.clue_strings)


(***************************************************************************)
(* C23                                                                     *)
(***************************************************************************)
\* The cells of the grid in scan order are 0, 1, ...: rows top to bottom,
\* each row left to right.
CellsPerRow == IF call.blank_grid = <<>> THEN 0 ELSE Len(call.blank_grid[1])
CellRow(j) == j \div CellsPerRow
CellCol(j) == j % CellsPerRow

\* Cell j starts an across entry, a down entry, an entry.
StartsAcrossAt(j) ==
    LET g == call.blank_grid  r == CellRow(j)  c == CellCol(j) IN
    /\ CellIs(g, r, c, FREE_SQUARE) /\ CellIs(g, r, c + 1, FREE_SQUARE)
    /\ (c = 0 \/ CellIs(g, r, c - 1, TAKEN_SQUARE))
StartsDownAt(j) ==
    LET g == call.blank_grid  r == CellRow(j)  c == CellCol(j) IN
    /\ CellIs(g, r, c, FREE_SQUARE) /\ CellIs(g, r + 1, c, FREE_SQUARE)
    /\ (r = 0 \/ CellIs(g, r - 1, c, TAKEN_SQUARE))
StartsAt(j) == StartsAcrossAt(j) \/ StartsDownAt(j)
\* How many of the cells before cell k start an entry.
StartsBefore(k) == Cardinality({j \in 0..(k - 1) : StartsAt(j)})

\* The keys of the two maps of the scan.
Numbered(st) == (DOMAIN st.across) \cup (DOMAIN st.down)

\* C23: the scan starts at cell 0 with number 1; each step goes to the next
\* cell in row-major order and raises the number by exactly 1 when the cell
\* starts an entry (one or both) and not at all otherwise, so the number
\* never decreases and the k-th starting cell is numbered k.
C23_Numbering ==
    [][/\ (pc = "call" /\ pc' = "scan") => (ret'.k = 0 /\ ret'.st.clue_number = 1)
       /\ (pc = "scan" /\ pc' = "scan") =>
             /\ ret'.k = ret.k + 1
             /\ ret'.st.clue_number =
                    ret.st.clue_number + (IF StartsAt(ret.k) THEN 1 ELSE 0)
             /\ ret'.st.clue_number >= ret.st.clue_number
             /\ StartsAt(ret.k) =>
                    /\ ret.st.clue_number = StartsBefore(ret.k) + 1
                    /\ Numbered(ret'.st) = Numbered(ret.st) \cup {ret.st.clue_number}
                    /\ ret.st.clue_number \notin Numbered(ret.st)
             /\ ~StartsAt(ret.k) => Numbered(ret'.st) = Numbered(ret.st)]_vars

\* 2 x 2 free cells: the first cell starts both entries and is numbered
\* once, the second starts a down entry; the third cell is numbered 3.
C23_Witness ==
    /\ pc = "scan" /\ call.blank_grid = << <<45, 45>>, <<45, 45>> >>
    /\ ret.k = 2 /\ ret.st.clue_number = 3
    /\ DOMAIN ret.st.across = {1} /\ DOMAIN ret.st.down = {1, 2}


(***************************************************************************)
(* C24                                                                     *)
(***************************************************************************)
\* How many slots cell j fills.
SlotsAt(j) == (IF StartsAcrossAt(j) THEN 1 ELSE 0) + (IF StartsDownAt(j) THEN 1 ELSE 0)

\* The maps agree on every key of the first.
SameOn(m1, m2) == \A n \in DOMAIN m1 : n \in DOMAIN m2 /\ m2[n] = m1[n]

\* C24: a step of the scan that is at list index i and number n puts
\* clues[i] into across[n] when the cell starts an across entry, and the
\* string after the across string (clues[i+1] when it starts both, clues[i]
\* when it starts only a down entry) into down[n]; the index advances by
\* one per slot filled and nothing else in the maps changes.
C24_AcrossBeforeDown ==
    [][(pc = "scan" /\ pc' = "scan") =>
          LET i == ret.st.clue_index
              n == ret.st.clue_number
              cell == ret.k
              clue == call.clue_strings IN
          /\ ret'.st.clue_index = i + SlotsAt(cell)
          /\ StartsAcrossAt(cell) =>
                 n \in DOMAIN ret'.st.across /\ ret'.st.across[n] = clue[i + 1]
          /\ (StartsAcrossAt(cell) /\ StartsDownAt(cell)) =>
                 n \in DOMAIN ret'.st.down /\ ret'.st.down[n] = clue[i + 2]
          /\ (~StartsAcrossAt(cell) /\ StartsDownAt(cell)) =>
                 n \in DOMAIN ret'.st.down /\ ret'.st.down[n] = clue[i + 1]
          /\ ~StartsAcrossAt(cell) => ret'.st.across = ret.st.across
          /\ ~StartsDownAt(cell) => ret'.st.down = ret.st.down
          /\ SameOn(ret.st.across, ret'.st.across)
          /\ SameOn(ret.st.down, ret'.st.down)]_vars

\* 2 x 2 free cells: the first cell, reached with index 0, starts both
\* entries and has taken "a" across and "b" down as number 1.
C24_Witness ==
    /\ pc = "scan" /\ call.blank_grid = << <<45, 45>>, <<45, 45>> >>
    /\ ret.k = 1 /\ ret.st.clue_index = 2 /\ ret.st.clue_number = 2
    /\ ret.st.across = (1 :> <<97>>)
    /\ ret.st.down = (1 :> <<98>>)


(***************************************************************************)
(* C25                                                                     *)
(***************************************************************************)
\* The k-th smallest member of a set of numbers.
NthOf(S, k) == CHOOSE i \in S : Cardinality({j \in S : j <= i}) = k

\* The text between the separators sep of s: piece 1 before the first, ...
PieceCount(s, sep) == Cardinality({i \in 1..Len(s) : s[i] = sep}) + 1
Piece(s, sep, k) ==
    LET at == {i \in 1..Len(s) : s[i] = sep} IN
    SubSeq(s, (IF k = 1 THEN 0 ELSE NthOf(at, k - 1)) + 1,
              (IF k = PieceCount(s, sep) THEN Len(s) + 1 ELSE NthOf(at, k)) - 1)

\* s without the blanks at its two ends.
Strip(s) ==
    LET ink == {i \in 1..Len(s) : s[i] \notin {9, 10, 13, 32}} IN
    IF ink = {} THEN <<>>
    ELSE SubSeq(s, CHOOSE i \in ink : \A j \in ink : i <= j,
                   CHOOSE i \in ink : \A j \in ink : i >= j)

RECURSIVE NumeralValue(_)
\* The number a string of digits writes.
NumeralValue(d) ==
    IF d = <<>> THEN 0
    ELSE 10 * NumeralValue(SubSeq(d, 1, Len(d) - 1)) + (d[Len(d)] - 48)

\* The digits of a numeral: the numeral without a leading '+'.
Digits(k) == IF k # <<>> /\ k[1] = 43 THEN Tail(k) ELSE k
\* k writes a byte in decimal: one or more digits, after an optional '+',
\* of a value up to 255.
ByteNumeral(k) ==
    /\ Digits(k) # <<>>
    /\ \A i \in 1..Len(Digits(k)) : Digits(k)[i] >= 48 /\ Digits(k)[i] <= 57
    /\ NumeralValue(Digits(k)) <= 255

\* The entry is key:value with a key that writes a byte.
EntryKeyText(e) == Strip(Piece(e, 58, 1))
WellFormedEntry(e) == PieceCount(e, 58) >= 2 /\ ByteNumeral(EntryKeyText(e))
EntryKey(e) == NumeralValue(Digits(EntryKeyText(e)))
EntryValue(e) == Strip(SubSeq(e, Len(Piece(e, 58, 1)) + 2, Len(e)))

\* The table that the well-formed entries of the text give: each key with
\* the value of the last entry that has it.
TableOf(text) ==
    LET good == {k \in 1..PieceCount(text, 59) : WellFormedEntry(Piece(text, 59, k))}
        keys == {EntryKey(Piece(text, 59, k)) : k \in good} IN
    [key \in keys |->
        EntryValue(Piece(text, 59,
            CHOOSE k \in good :
                /\ EntryKey(Piece(text, 59, k)) = key
                /\ \A j \in good : EntryKey(Piece(text, 59, j)) = key => j <= k))]

\* The payload of the section of the call's data.
CallPayload(tag) ==
    SubSeq(call.data, TagAt(call.data, tag) + 8,
           TagAt(call.data, tag) + 7 + PayloadLen(call.data, tag))

\* A GRBS section of width*height bytes and an RTBL section are found.
RebusSectionsFound ==
    /\ Returned("parse_extensions_with_recovery") /\ call.width >= 1
    /\ Framed(call.data, GRBS) /\ PayloadLen(call.data, GRBS) = call.width * call.height
    /\ Framed(call.data, RTBL)

\* C25: with a GRBS section of width*height bytes and an RTBL section, the
\* call returns Ok with rebus = Some and no warning about the rebus, whatever
\* the entries of the RTBL text are; the table holds exactly the entries
\* that are key:value with a key writing a byte in decimal (key and value
\* without the blanks around them), and the grid holds the GRBS bytes, also
\* keys that the table does not have.
C25_BadEntriesDropped ==
    RebusSectionsFound =>
        /\ ret.ok
        /\ ret.val.extensions.rebus.kind = "Some"
        /\ SkippedWarnings(ret.val.warnings, {"GRBS", "RTBL"}) = {}
        /\ TagAt(call.data, GEXT) = 0 => ret.val.warnings = <<>>
        /\ ret.val.extensions.rebus.val.table
             = TableOf(decode_puz_string(CallPayload(RTBL)))
        /\ ret.val.extensions.rebus.val.grid
             = GridOf(CallPayload(GRBS), call.width, call.height)

\* "X:Y;5:AB": the first entry is dropped, the second is kept, and key 7 of
\* the grid has no entry.
C25_Witness ==
    /\ RebusSectionsFound
    /\ CallPayload(RTBL) = <<88, 58, 89, 59, 53, 58, 65, 66>>
    /\ ret.val.warnings = <<>>
    /\ ret.val.extensions.rebus.val.table = (5 :> <<65, 66>>)
    /\ ret.val.extensions.rebus.val.grid = << <<0, 5>>, <<0, 7>> >>


(***************************************************************************)
(* C26                                                                     *)
(***************************************************************************)
RECURSIVE ListFrom(_, _, _, _)
\* The texts of the numbers n, n + 1, ..., top: for each number the across
\* text, if it has one, and then the down text, if it has one.
ListFrom(across, down, n, top) ==
    IF n > top THEN <<>>
    ELSE (IF n \in DOMAIN across THEN <<across[n]>> ELSE <<>>)
         \o (IF n \in DOMAIN down THEN <<down[n]>> ELSE <<>>)
         \o ListFrom(across, down, n + 1, top)

\* The largest key of the two maps, 0 when both are empty.
TopNumber(across, down) ==
    LET keys == (DOMAIN across) \cup (DOMAIN down) IN
    IF keys = {} THEN 0 ELSE CHOOSE n \in keys : \A m \in keys : m <= n

\* C26: when process_clues has succeeded, the texts of its maps, listed by
\* increasing number and across before down, are the clue strings it was
\* given, in their order.
C26_RoundTrip ==
    CluesProcessed =>
        ListFrom(clues.across, clues.down, 1, TopNumber(clues.across, clues.down))
          = strings.clues

\* A grid whose first cell starts both entries and whose maps differ: "a"
\* is 1 across, "b" is 1 down, and there are more strings than those two.
C26_Witness ==
    /\ CluesProcessed /\ Len(strings.clues) >= 4
    /\ 1 \in DOMAIN clues.across /\ clues.across[1] = <<97>>
    /\ 1 \in DOMAIN clues.down /\ clues.down[1] = <<98>>
    /\ DOMAIN clues.across # DOMAIN clues.down

(***************************************************************************)
(* C27                                                                     *)
(***************************************************************************)
\* The numbers of the cells before cell k that start an across entry, a
\* down entry.
AcrossNumbers(k) == {StartsBefore(j) + 1 : j \in {i \in 0..(k - 1) : StartsAcrossAt(i)}}
DownNumbers(k) == {StartsBefore(j) + 1 : j \in {i \in 0..(k - 1) : StartsDownAt(i)}}
AllCells == Len(call.blank_grid) * CellsPerRow

\* C27: while the scan runs, the keys of the two maps together are exactly
\* 1, ..., the number of starting cells scanned, each map has one key per
\* cell that starts an entry of its direction (no key is used twice in a
\* map); when process_clues returns Ok for a grid of k starting cells, the
\* keys are exactly 1, ..., k and each of them is in at least one map.
C27_KeysWithoutGaps ==
    /\ pc = "scan" =>
          /\ Numbered(ret.st) = 1..StartsBefore(ret.k)
          /\ DOMAIN ret.st.across = AcrossNumbers(ret.k)
          /\ DOMAIN ret.st.down = DownNumbers(ret.k)
          /\ Cardinality(DOMAIN ret.st.across)
               = Cardinality({i \in 0..(ret.k - 1) : StartsAcrossAt(i)})
          /\ Cardinality(DOMAIN ret.st.down)
               = Cardinality({i \in 0..(ret.k - 1) : StartsDownAt(i)})
    /\ (Returned("process_clues") /\ ret.ok) =>
          /\ (DOMAIN ret.val.across) \cup (DOMAIN ret.val.down) = 1..StartsBefore(AllCells)
          /\ \A n \in 1..StartsBefore(AllCells) :
                 n \in DOMAIN ret.val.across \/ n \in DOMAIN ret.val.down

\* 2 x 2 free cells: three starting cells; 1 is in both maps, 2 only in
\* down, 3 only in across.
C27_Witness ==
    /\ Returned("process_clues") /\ ret.ok
    /\ call.blank_grid = << <<45, 45>>, <<45, 45>> >>
    /\ DOMAIN ret.val.across = {1, 3} /\ DOMAIN ret.val.down = {1, 2}

(***************************************************************************)
(* C28                                                                     *)
(***************************************************************************)
\* The largest width and height the header can hold (u8).
MaxDimension == 255
\* The largest value of the clue number (u16).
MaxClueNumber == 65535

\* C28: while the scan runs, the clue number is 1 plus the number of
\* starting cells scanned so far, which is at most the number of cells
\* scanned and so at most width*height; for a width and a height of at most
\* 255 that is at most 1 + 255*255, which a 16-bit counter holds.
C28_NoOverflow ==
    /\ pc = "scan" =>
          /\ ret.st.clue_number = 1 + StartsBefore(ret.k)
          /\ StartsBefore(ret.k) <= ret.k
          /\ ret.k <= AllCells
          /\ ret.st.clue_number <= MaxClueNumber
    /\ 1 + MaxDimension * MaxDimension <= MaxClueNumber

\* 2 x 2 free cells: after the scan of the three starting cells the number
\* is 4.
C28_Witness ==
    /\ pc = "scan" /\ call.blank_grid = << <<45, 45>>, <<45, 45>> >>
    /\ ret.k = 3 /\ ret.st.clue_number = 4


(***************************************************************************)
(* C29                                                                     *)
(***************************************************************************)
\* Row r (0-based) of the file's grids has a byte of 0x80 or more, has a
\* cell blocked in one grid only.
FileRowCells(r) == (r * FileWidth + 1)..((r + 1) * FileWidth)
FileRowHigh(r) == \E i \in FileRowCells(r) : FileSolution(i) >= 128 \/ FileBlank(i) >= 128
FileRowBlockMismatch(r) ==
    \E i \in FileRowCells(r) : (FileSolution(i) = 46) # (FileBlank(i) = 46)
FileHighByte == \E r \in 0..(FileHeight - 1) : FileRowHigh(r)

\* C29: when parse_grids has run on grids with a solution or blank byte of
\* 0x80 or more, it has failed with InvalidGrid and returned no grids; the
\* error is the width mismatch of the first row with such a byte, whether or
\* not that row's blocked cells agree, unless a row before it is rejected.
C29_HighBytesRejected ==
    (GridsStageRan /\ FileHighByte) =>
        /\ pc = "done" /\ Failed("InvalidGrid") /\ ~GridsParsed
        /\ \A r \in 0..(FileHeight - 1) :
              (FileRowHigh(r)
               /\ \A q \in 0..(r - 1) : ~FileRowHigh(q) /\ ~FileRowBlockMismatch(q))
              => result.err.reason = [why |-> "Grid width mismatch", row |-> r]

\* 0xC9 in the solution over a free cell: the blocked cells agree, the row
\* is too long.
C29_Witness ==
    /\ GridsStageRan /\ ~FileBlockMismatch
    /\ \E i \in 1..FileCells : FileSolution(i) = 201 /\ FileBlank(i) = FREE_SQUARE
    /\ pc = "done" /\ ~GridsParsed
    /\ result = [kind |-> "Err", err |-> InvalidGrid([why |-> "Grid width mismatch",
                                                      row |-> 0])]


(***************************************************************************)
(* C30                                                                     *)
(***************************************************************************)
\* The places (1-based) at which the tag occurs in t.
Occurrences(t, tag) == {i \in 1..(Len(t) - 3) : SubSeq(t, i, i + 3) = tag}
\* The occurrence at place p has its two length bytes, its two checksum
\* bytes and the payload it declares inside t.
FramedAt(t, p) == p + 5 <= Len(t) /\ p + 7 + Declared(t, p) <= Len(t)
PayloadAt(t, p) == SubSeq(t, p + 8, p + 7 + Declared(t, p))

\* C30: when the tag occurs in the buffer, the result of find_section is
\* what the first occurrence gives and no later occurrence changes it: the
\* payload declared at the first occurrence, also when that occurrence is
\* inside another section, and None when the first occurrence fails a
\* bounds check, also when a later occurrence is well framed.
C30_FirstOccurrenceOnly ==
    (Returned("find_section") /\ Occurrences(call.data, call.section_name) # {}) =>
        LET t == call.data
            occ == Occurrences(t, call.section_name)
            first == CHOOSE p \in occ : \A q \in occ : p <= q IN
        /\ FramedAt(t, first) => ret = Some(PayloadAt(t, first))
        /\ ~FramedAt(t, first) => ret = None
        /\ \A q \in occ \ {first} :
              (FramedAt(t, q) /\ (~FramedAt(t, first) \/ PayloadAt(t, q) # PayloadAt(t, first)))
              => ret # Some(PayloadAt(t, q))

\* The first GEXT tag declares 200 bytes in a buffer of 18; the GEXT section
\* behind it is well framed, and the result is None.
C30_Witness ==
    /\ Returned("find_section") /\ call.section_name = GEXT /\ ret = None
    /\ LET occ == Occurrences(call.data, GEXT) IN
       /\ 1 \in occ /\ ~FramedAt(call.data, 1)
       /\ \E q \in occ : q > 1 /\ FramedAt(call.data, q)

\* A GEXT section inside the payload of GRBS comes before the GEXT section
\* of the buffer: its payload is the result.
C30_WitnessInside ==
    /\ Returned("find_section") /\ call.section_name = GEXT /\ ret = Some(<<64>>)
    /\ FramedAt(call.data, 1) /\ SubSeq(call.data, 1, 4) = GRBS
    /\ \E q \in Occurrences(call.data, GEXT) :
          /\ q > 8 + Declared(call.data, 1) /\ FramedAt(call.data, q)
          /\ PayloadAt(call.data, q) = <<128, 192>>

====
